---- MODULE Spec2Model ----
(***************************************************************************)
(* Progress API handlers of TarkovTracker (functions/.../progressHandler): *)
(* updateSingleTask, updateMultipleTasks and updateTaskObjective, run as   *)
(* interleaved requests against one actor's Firestore progress document.   *)
(* Every handler is cut at its awaits: the synchronous prefix up to the    *)
(* first await is one action, the store write is one action, each catalog  *)
(* load and each updateTaskState call inside a dependency-update promise   *)
(* is one action, and the final response is one action.                    *)
(***************************************************************************)
EXTENDS Integers, Sequences, FiniteSets, TLC

\* ---- bounds of the model ------------------------------------------------
MaxTime == 2
MaxCount == 1
MaxSegment == 2
MaxMembers == 2
MaxReqs == 2
MaxTimers == 2

\* ---- program constants --------------------------------------------------
\* Highest level of the documented levelValue schema.
MaxLevel == 79

\* ---- domains ------------------------------------------------------------
Req == {"r1"}
Tasks == {"t1", "t2"}
Objectives == {"o1"}
NoId == ""
None == "none"
TaskStatus == {"uncompleted", "completed", "failed"}
StatusInputs == TaskStatus \cup {"bogus"}
ObjStateInputs == StatusInputs \cup {None}
Undefined == [type |-> "undefined"]
CountInputs ==
  {Undefined, [type |-> "string"]} \cup {[type |-> "number", val |-> n] : n \in -1..MaxCount}

\* Prerequisite edges of the task catalog snapshot: <<p, d>> means p is a
\* direct predecessor of d.
TaskEdges == {<<"t1", "t2">>}

\* store: the actor's progress document; clock: Date.now(); req: the requests
\* in progress; committed: for each task, the state of the last primary write
\* that changed it (history of the document, not read by the handlers).
\* db: the system, team and user documents and the set of actors that have a
\* progress document, as getTeamProgress reads them; view: the invocation of
\* getTeamProgress in progress and its response.
\* queryResult: the latest result of the hideout query; hideout: the refs of
\* useHideoutData (stations, modules, graph, needed items), whether the watch
\* of queryResult is still to run, and the last total construction time
\* that was asked.
\* tarkov: the pinia store swapTarkov (its state, the user's progress
\* document as the store writes it, and the call in progress); fireuser: the
\* signed-in user; watcher: the watch of fireuser.loggedIn and the binding
\* of the store; consent: the module state of usePrivacyConsent, the
\* localStorage item and the signals sent to the analytics services.
VARIABLES store, clock, req, committed, db, view, queryResult, hideout,
          tarkov, fireuser, watcher, consent

vars ==
  <<store, clock, req, committed, db, view, queryResult, hideout, tarkov,
    fireuser, watcher, consent>>

progressVars == <<store, clock, req, committed, db, view>>
hideoutVars == <<queryResult, hideout>>
frontendVars == <<tarkov, fireuser, watcher, consent>>

\* ---- values and helpers -------------------------------------------------
EmptyMap == [k \in {} |-> TRUE]

isValidTaskStatus(status) == status \in {"uncompleted", "completed", "failed"}

\* A dotted-path update of one map entry: fields to set and fields removed
\* by FieldValue.delete().
NoUpdate == [set |-> EmptyMap, del |-> {}]

\* Variant of TaskFields: "uncompleted" resets the flags but leaves the
\* timestamp in place.
TaskFieldsKeepTimestamp(status, updateTime) ==
  CASE status = "completed" ->
         [set |-> [complete |-> TRUE, failed |-> FALSE, timestamp |-> updateTime], del |-> {}]
    [] status = "failed" ->
         [set |-> [complete |-> TRUE, failed |-> TRUE, timestamp |-> updateTime], del |-> {}]
    [] status = "uncompleted" ->
         [set |-> [complete |-> FALSE, failed |-> FALSE], del |-> {}]
    [] OTHER -> NoUpdate

TaskFields(status, updateTime) ==
  CASE status = "completed" ->
         [set |-> [complete |-> TRUE, failed |-> FALSE, timestamp |-> updateTime], del |-> {}]
    [] status = "failed" ->
         [set |-> [complete |-> TRUE, failed |-> TRUE, timestamp |-> updateTime], del |-> {}]
    [] status = "uncompleted" ->
         [set |-> [complete |-> FALSE, failed |-> FALSE], del |-> {"timestamp"}]
    [] OTHER -> NoUpdate

\* Variant of MergeFields: a field that the entry already has keeps its value.
MergeFieldsKeepsOld(rec, upd) ==
  [k \in ((DOMAIN rec) \cup (DOMAIN upd.set)) \ upd.del |->
     IF k \in DOMAIN rec THEN rec[k] ELSE upd.set[k]]

\* Variant of MergeFields: the entry is replaced by the fields of the update.
MergeFieldsReplaces(rec, upd) == upd.set

\* Variant of MergeFields: FieldValue.delete() is ignored.
MergeFieldsIgnoresDelete(rec, upd) ==
  [k \in (DOMAIN rec) \cup (DOMAIN upd.set) |->
     IF k \in DOMAIN upd.set THEN upd.set[k] ELSE rec[k]]

\* Firestore update() of the fields of one nested map entry: siblings that
\* the update does not name are kept, deleted fields disappear.
MergeFields(rec, upd) ==
  [k \in ((DOMAIN rec) \cup (DOMAIN upd.set)) \ upd.del |->
     IF k \in DOMAIN upd.set THEN upd.set[k] ELSE rec[k]]

\* Variant of MergeMap: the map is replaced by the entries of the update.
MergeMapDropsSiblings(map, upds) ==
  [id \in DOMAIN upds |->
     MergeFields(IF id \in DOMAIN map THEN map[id] ELSE EmptyMap, upds[id])]

\* Firestore update() of a map of entries (taskCompletions, taskObjectives).
MergeMap(map, upds) ==
  [id \in (DOMAIN map) \cup (DOMAIN upds) |->
     IF id \in DOMAIN upds
       THEN MergeFields(IF id \in DOMAIN map THEN map[id] ELSE EmptyMap, upds[id])
       ELSE map[id]]

\* again and once are history of the client, not read by the handlers: the
\* request repeats the previous one, which left taskCompletions as once.
IdleReq ==
  [kind |-> "none", pc |-> "idle", authorized |-> FALSE, items |-> <<>>, updateTime |-> 0,
   updateData |-> EmptyMap, wrote |-> FALSE, status |-> 0, error |-> None,
   prop |-> <<>>, again |-> FALSE, once |-> EmptyMap]

\* ---- team documents -----------------------------------------------------
Users == {"a", "b"}
TeamId == "team1"

\* system/<u>.team, user/<u>.teamHide (the ids whose flag is true), the team
\* document, and the actors with a progress document.
NoTeams ==
  [team |-> [u \in Users |-> None], teamHide |-> [u \in Users |-> {}],
   teamDoc |-> [exists |-> FALSE, members |-> <<>>], progress |-> {}]

\* last is history of the client, not read by the handler: the latest team
\* view that the client received before this request.
NoResponse == [owner |-> None, status |-> 0, data |-> <<>>, hiddenTeammates |-> <<>>]

IdleView ==
  [kind |-> "none", pc |-> "idle", owner |-> None, authorized |-> FALSE,
   loads |-> EmptyMap, status |-> 0, error |-> None, teamId |-> None,
   hiddenTeammatesMap |-> {}, memberIds |-> <<>>, data |-> <<>>,
   self |-> None, hiddenTeammates |-> <<>>, last |-> NoResponse]

\* ---- hideout catalog and graph --------------------------------------------
\* A query result without hideoutStations.
NoResult == [hasStations |-> FALSE, hideoutStations |-> <<>>]

\* graphHelpers.createGraph(): a directed graph without nodes.
CreateGraph == [nodes |-> {}, edges |-> {}]

\* safeAddNode and safeAddEdge: adding what is there already changes nothing.
SafeAddNode(graph, id) == [graph EXCEPT !.nodes = @ \cup {id}]
SafeAddEdge(graph, from, to) == [graph EXCEPT !.edges = @ \cup {<<from, to>>}]

\* The refs of useHideoutData before any data.
EmptyHideout ==
  [hideoutStations |-> <<>>, hideoutModules |-> <<>>, hideoutGraph |-> CreateGraph,
   neededItemHideoutModules |-> <<>>, dirty |-> FALSE, asked |-> None, total |-> 0]

\* array.find(test): the first element that passes, as a sequence of at most
\* one element (empty for undefined).
Find(seq, Test(_)) ==
  LET hits == {i \in DOMAIN seq : Test(seq[i])}
  IN IF hits = {} THEN <<>>
     ELSE <<seq[CHOOSE i \in hits : \A j \in hits : i <= j]>>

\* All levels of all stations, in the order of the two nested forEach loops.
RECURSIVE AllLevels(_)
AllLevels(stations) ==
  IF stations = <<>> THEN <<>>
  ELSE [i \in DOMAIN Head(stations).levels |->
          [level |-> Head(stations).levels[i], stationId |-> Head(stations).id]]
       \o AllLevels(Tail(stations))

\* Variant of RequiredLevel: the declared level number is used as the
\* position in the levels array.
RequiredLevelByIndex(stations, requirement) ==
  LET isStation(st) == st.id = requirement.station
      requiredStation == Find(stations, isStation)
  IN IF requiredStation = <<>> THEN <<>>
     ELSE IF requirement.level \in DOMAIN requiredStation[1].levels
       THEN <<requiredStation[1].levels[requirement.level]>>
     ELSE <<>>

\* requiredStation?.levels.find((l) => l.level === requirement.level)
RequiredLevel(stations, requirement) ==
  LET isStation(st) == st.id = requirement.station
      requiredStation == Find(stations, isStation)
      isLevel(l) == l.level = requirement.level
  IN IF requiredStation = <<>> THEN <<>>
     ELSE Find(requiredStation[1].levels, isLevel)

\* The edges that the requirements of one level add. The requirements are a
\* set: the order of the inner forEach does not matter for insertions that
\* are idempotent.
LevelEdges(stations, level) ==
  {<<RequiredLevel(stations, rq)[1].id, level.id>> :
     rq \in {q \in level.stationLevelRequirements :
               q.station # None /\ RequiredLevel(stations, q) # <<>>}}

\* Variant of BuildHideoutGraph: a requirement that does not resolve makes
\* the builder give up and return the empty graph.
BuildHideoutGraphGivesUp(stations) ==
  LET levels == AllLevels(stations)
      broken == \E i \in DOMAIN levels : \E q \in levels[i].level.stationLevelRequirements :
                  q.station # None /\ RequiredLevel(stations, q) = <<>>
      edges == UNION {LevelEdges(stations, levels[i].level) : i \in DOMAIN levels}
  IN IF broken THEN CreateGraph
     ELSE [nodes |-> {levels[i].level.id : i \in DOMAIN levels} \cup
                     {e[1] : e \in edges},
           edges |-> edges]

\* buildHideoutGraph: a node for every level and for every required level
\* that resolves, and an edge from each resolved required level to the level
\* that declares the requirement.
BuildHideoutGraph(stations) ==
  LET levels == AllLevels(stations)
      edges == UNION {LevelEdges(stations, levels[i].level) : i \in DOMAIN levels}
  IN [nodes |-> {levels[i].level.id : i \in DOMAIN levels} \cup {e[1] : e \in edges},
      edges |-> edges]

\* graphHelpers.getParents / getChildren: the direct neighbours.
GetParents(graph, id) == {e[1] : e \in {x \in graph.edges : x[2] = id}}
GetChildren(graph, id) == {e[2] : e \in {x \in graph.edges : x[1] = id}}

\* graphHelpers.getPredecessors / getSuccessors: everything reachable
\* against, or along, the edges, found by a traversal with a visited set.
RECURSIVE Reach(_, _, _, _)
Reach(graph, Step(_, _), frontier, visited) ==
  IF frontier = {} THEN visited
  ELSE LET next == (UNION {Step(graph, n) : n \in frontier}) \ visited
       IN Reach(graph, Step, next, visited \cup next)

\* Variant of GetPredecessors: only the direct predecessors.
GetPredecessorsDirect(graph, id) == GetParents(graph, id)

GetPredecessors(graph, id) == Reach(graph, GetParents, {id}, {})
GetSuccessors(graph, id) == Reach(graph, GetChildren, {id}, {})

\* createHideoutModules: one module per level, in catalog order.
CreateHideoutModules(stations, graph) ==
  LET levels == AllLevels(stations)
  IN [i \in DOMAIN levels |->
        [id |-> levels[i].level.id,
         level |-> levels[i].level.level,
         constructionTime |-> levels[i].level.constructionTime,
         itemRequirements |-> levels[i].level.itemRequirements,
         stationId |-> levels[i].stationId,
         predecessors |-> GetPredecessors(graph, levels[i].level.id),
         successors |-> GetSuccessors(graph, levels[i].level.id),
         parents |-> GetParents(graph, levels[i].level.id),
         children |-> GetChildren(graph, levels[i].level.id)]]

\* extractItemRequirements: one entry per item requirement that names an
\* item, in module order.
RECURSIVE ExtractItemRequirements(_)
ExtractItemRequirements(modules) ==
  IF modules = <<>> THEN <<>>
  ELSE LET module == Head(modules)
           named(rq) == rq.item # None
           reqs == SelectSeq(module.itemRequirements, named)
       IN [i \in DOMAIN reqs |->
             [id |-> reqs[i].id, needType |-> "hideoutModule",
              hideoutModule |-> module.id, item |-> reqs[i].item]]
          \o ExtractItemRequirements(Tail(modules))

\* Variant of WatchQueryResult: the modules and the needed items of the
\* earlier result are kept when the new result has stations.
WatchQueryResultKeepsModules(newResult, refs) ==
  IF newResult.hasStations
    THEN LET newGraph == BuildHideoutGraph(newResult.hideoutStations)
         IN [refs EXCEPT !.hideoutStations = newResult.hideoutStations,
                         !.hideoutGraph = newGraph]
    ELSE [refs EXCEPT !.hideoutStations = <<>>, !.hideoutModules = <<>>,
                      !.hideoutGraph = CreateGraph,
                      !.neededItemHideoutModules = <<>>]

\* The callback of watch(queryResult): the four refs are rebuilt from the
\* new result, or reset when it has no hideoutStations.
WatchQueryResult(newResult, refs) ==
  IF newResult.hasStations
    THEN LET newGraph == BuildHideoutGraph(newResult.hideoutStations)
             newModules == CreateHideoutModules(newResult.hideoutStations, newGraph)
             newNeededItems == ExtractItemRequirements(newModules)
         IN [refs EXCEPT !.hideoutStations = newResult.hideoutStations,
                         !.hideoutModules = newModules,
                         !.hideoutGraph = newGraph,
                         !.neededItemHideoutModules = newNeededItems]
    ELSE [refs EXCEPT !.hideoutStations = <<>>, !.hideoutModules = <<>>,
                      !.hideoutGraph = CreateGraph,
                      !.neededItemHideoutModules = <<>>]

\* hideoutModules.value.find((module) => module.id === moduleId)
GetModuleById(modules, moduleId) ==
  LET isModule(m) == m.id = moduleId
  IN Find(modules, isModule)

\* The forEach over module.predecessors: the construction times of the
\* prerequisites that are modules, added up.
RECURSIVE PrerequisiteTime(_, _)
PrerequisiteTime(modules, ids) ==
  IF ids = {} THEN 0
  ELSE LET prerequisiteId == CHOOSE x \in ids : TRUE
           prerequisite == GetModuleById(modules, prerequisiteId)
       IN (IF prerequisite # <<>> THEN prerequisite[1].constructionTime ELSE 0)
          + PrerequisiteTime(modules, ids \ {prerequisiteId})

GetTotalConstructionTime(modules, moduleId) ==
  LET module == GetModuleById(modules, moduleId)
  IN IF module = <<>> THEN 0
     ELSE module[1].constructionTime + PrerequisiteTime(modules, module[1].predecessors)

\* The query delivers a new result; the watch callback is scheduled.
QueryResultChanges(newResult) ==
  /\ queryResult' = newResult
  /\ hideout' = [hideout EXCEPT !.dirty = TRUE]
  /\ UNCHANGED <<progressVars, frontendVars>>

\* The scheduled watch callback runs with the latest result.
WatchFires ==
  /\ hideout.dirty
  /\ hideout' = [WatchQueryResult(queryResult, hideout) EXCEPT
                   !.dirty = FALSE, !.asked = None, !.total = 0]
  /\ UNCHANGED <<progressVars, queryResult, frontendVars>>

\* A caller asks getTotalConstructionTime(moduleId).
TotalTimeAsked(moduleId) ==
  /\ hideout' = [hideout EXCEPT
       !.asked = moduleId,
       !.total = GetTotalConstructionTime(hideout.hideoutModules, moduleId)]
  /\ UNCHANGED <<progressVars, queryResult, frontendVars>>

\* ---- the tarkov store (pinia store swapTarkov) -------------------------------
GameModes == {"pvp", "pve"}

\* Fields of one mode's progress. taskCompletions stands for every map of
\* the progress data (taskObjectives, hideoutModules and hideoutParts are
\* handled alike).
ProgressFields == {"level", "pmcFaction", "displayName", "taskCompletions"}

\* Keys whose values are plain objects; every other key holds a scalar.
ObjectKeys == GameModes \cup {"taskCompletions"} \cup Tasks

\* defaultState[mode]: the empty progress of one mode.
DefaultProgress ==
  [level |-> 1, pmcFaction |-> "USEC", displayName |-> None,
   taskCompletions |-> EmptyMap]

\* defaultState of shared_state.
DefaultState ==
  [currentGameMode |-> "pvp", gameEdition |-> 1, pvp |-> DefaultProgress,
   pve |-> DefaultProgress]

\* No progress document of the user in Firestore.
NoRemote == [exists |-> FALSE, data |-> EmptyMap]

\* What the last call of an action of the store did (history, read by no
\* action): the action, the state it found, whether migrateDataIfNeeded had
\* run before, whether it patched the state and whether it wrote the
\* document.
NoCall ==
  [op |-> None, before |-> EmptyMap, again |-> FALSE, patched |-> FALSE,
   wrote |-> FALSE]

\* resetCurrentGameModeData is not running.
NoReset == [pc |-> "idle", mode |-> None, local |-> EmptyMap, remote |-> NoRemote]

\* The store right after defineStore: the default state, nothing called yet.
FreshStore ==
  [state |-> DefaultState, remote |-> NoRemote, migrated |-> FALSE,
   last |-> NoCall, reset |-> NoReset]

LoggedOut == [loggedIn |-> FALSE]

\* store.$patch(partial) of pinia: plain objects are merged key by key,
\* every other value is assigned.
RECURSIVE Patch(_, _)
Patch(target, partial) ==
  [k \in DOMAIN target \cup DOMAIN partial |->
     IF k \notin DOMAIN partial THEN target[k]
     ELSE IF k \in DOMAIN target /\ k \in ObjectKeys
       THEN Patch(target[k], partial[k])
       ELSE partial[k]]

\* setDoc(ref, data, { merge: true }) of the Firestore client: the leaves of
\* data replace the fields at their paths, an empty map in data is a leaf,
\* and every other field of the document is kept.
RECURSIVE SetDocMerge(_, _)
SetDocMerge(data, partial) ==
  [k \in DOMAIN data \cup DOMAIN partial |->
     IF k \notin DOMAIN partial THEN data[k]
     ELSE IF k \in DOMAIN data /\ k \in ObjectKeys /\ partial[k] # EmptyMap
       THEN SetDocMerge(data[k], partial[k])
       ELSE partial[k]]

\* JavaScript truthiness of state[k].
Has(state, k) == k \in DOMAIN state

\* A check that looks at the legacy level alone.
NeedsMigrationAnyLevel(state) ==
  \/ ~Has(state, "currentGameMode")
  \/ ~Has(state, "pvp")
  \/ ~Has(state, "pve")
  \/ Has(state, "level")

\* A check of the selector and the two mode objects alone.
NeedsMigrationWithoutLevel(state) ==
  \/ ~Has(state, "currentGameMode")
  \/ ~Has(state, "pvp")
  \/ ~Has(state, "pve")

\* needsMigration of migrateDataIfNeeded.
NeedsMigration(state) ==
  \/ ~Has(state, "currentGameMode")
  \/ ~Has(state, "pvp")
  \/ ~Has(state, "pve")
  \/ (Has(state, "level") /\ ~(Has(state, "pvp") /\ Has(state.pvp, "level")))

\* One mode's progress, completed from the legacy fields of the record and
\* then from the defaults.
Bucket(state, mode, legacy) ==
  LET own == IF Has(state, mode) THEN state[mode] ELSE EmptyMap
  IN  [k \in ProgressFields |->
         IF Has(own, k) THEN own[k]
         ELSE IF Has(legacy, k) THEN legacy[k]
         ELSE DefaultProgress[k]]

\* A migration that starts the pvp progress from the defaults.
MigrateToDefaults(state) ==
  [currentGameMode |-> "pvp",
   gameEdition |-> IF Has(state, "gameEdition") THEN state.gameEdition
                   ELSE DefaultState.gameEdition,
   pvp |-> DefaultProgress,
   pve |-> DefaultProgress]

\* migrateToGameModeStructure of shared_state: the legacy fields go to the
\* pvp progress, the pve progress is the default, the mode is pvp; what the
\* record already holds in the new shape is kept.
MigrateToGameModeStructure(state) ==
  [currentGameMode |-> IF Has(state, "currentGameMode") THEN state.currentGameMode
                       ELSE "pvp",
   gameEdition |-> IF Has(state, "gameEdition") THEN state.gameEdition
                   ELSE DefaultState.gameEdition,
   pvp |-> Bucket(state, "pvp", state),
   pve |-> Bucket(state, "pve", EmptyMap)]

\* The store after the body of migrateDataIfNeeded on it; saved tells
\* whether the unawaited setDoc(ref, migratedData) reaches the document.
Migrated(t, loggedIn, saved) ==
  IF NeedsMigration(t.state)
    THEN LET migratedData == MigrateToGameModeStructure(t.state)
         IN  [t EXCEPT
               !.state = Patch(t.state, migratedData),
               !.remote = IF loggedIn /\ saved
                            THEN [exists |-> TRUE, data |-> migratedData]
                            ELSE t.remote,
               !.migrated = TRUE,
               !.last = [op |-> "migrate", before |-> t.state,
                         again |-> t.migrated, patched |-> TRUE,
                         wrote |-> loggedIn]]
    ELSE [t EXCEPT
           !.migrated = TRUE,
           !.last = [op |-> "migrate", before |-> t.state,
                     again |-> t.migrated, patched |-> FALSE, wrote |-> FALSE]]

\* migrateDataIfNeeded(), called directly, by the timer set after binding,
\* or by the getters isTaskComplete, isTaskFailed and getCurrentGameMode.
MigrateDataIfNeeded(saved) ==
  /\ tarkov' = Migrated(tarkov, fireuser.loggedIn, saved)
  /\ UNCHANGED <<progressVars, hideoutVars, fireuser, watcher, consent>>

\* getters.getCurrentGameMode(state)().
GetCurrentGameMode(state) ==
  IF Has(state, "currentGameMode") THEN state.currentGameMode ELSE "pvp"

\* resetCurrentGameModeData() up to its await: nothing when logged out;
\* otherwise the mode is read (the getter migrates first) and the write of
\* the fresh progress of that mode is issued.
ResetCurrentGameModeData(saved) ==
  /\ tarkov.reset.pc = "idle"
  /\ IF ~fireuser.loggedIn
       THEN tarkov' = [tarkov EXCEPT
              !.last = [op |-> "reset", before |-> tarkov.state,
                        again |-> FALSE, patched |-> FALSE, wrote |-> FALSE],
              !.reset = [pc |-> "idle", mode |-> None,
                         local |-> tarkov.state, remote |-> tarkov.remote]]
       ELSE LET t == Migrated(tarkov, TRUE, saved)
                currentMode == GetCurrentGameMode(t.state)
            IN  tarkov' = [t EXCEPT
                  !.last = [op |-> "reset", before |-> tarkov.state,
                            again |-> FALSE, patched |-> t.last.patched,
                            wrote |-> TRUE],
                  !.reset = [pc |-> "writing", mode |-> currentMode,
                             local |-> tarkov.state, remote |-> tarkov.remote]]
  /\ UNCHANGED <<progressVars, hideoutVars, fireuser, watcher, consent>>

\* this.$patch({ [currentMode]: freshProgressData }).
ResetApplied(state, mode) ==
  Patch(state, mode :> DefaultProgress)

\* await setDoc(ref, { [currentMode]: fresh }, { merge: true }) resolves:
\* the document is merged, then the local state is patched.
ResetWritten ==
  /\ tarkov.reset.pc = "writing"
  /\ tarkov' = [tarkov EXCEPT
       !.remote = [exists |-> TRUE,
                   data |-> SetDocMerge(tarkov.remote.data,
                                        tarkov.reset.mode :> DefaultProgress)],
       !.state = ResetApplied(tarkov.state, tarkov.reset.mode),
       !.last = [tarkov.last EXCEPT !.op = "resetDone"],
       !.reset = [tarkov.reset EXCEPT !.pc = "idle"]]
  /\ UNCHANGED <<progressVars, hideoutVars, fireuser, watcher, consent>>

\* The write rejects: the catch logs, nothing else is done.
ResetFails ==
  /\ tarkov.reset.pc = "writing"
  /\ tarkov' = [tarkov EXCEPT
       !.last = [tarkov.last EXCEPT !.op = "resetFailed"],
       !.reset = [tarkov.reset EXCEPT !.pc = "idle"]]
  /\ UNCHANGED <<progressVars, hideoutVars, fireuser, watcher, consent>>

\* ---- the watch of fireuser.loggedIn ------------------------------------------
\* scheduled: the watcher's job is queued; seen: the value the watcher saw
\* when its callback last ran; running: watchHandlerRunning; pc and newValue:
\* the invocation that is inside its 100 ms wait; bound: firebindAll() was the
\* last binding call on the store; timers: migration timers not yet fired;
\* skipped and noStore are history: an invocation returned at the guard, an
\* invocation found no store instance.
IdleWatcher ==
  [scheduled |-> FALSE, seen |-> FALSE, running |-> FALSE, pc |-> "idle",
   newValue |-> FALSE, bound |-> FALSE, timers |-> 0, skipped |-> FALSE,
   noStore |-> FALSE]

\* fireuser.loggedIn changes (sign-in or sign-out): the watcher's job is
\* queued.
LoggedInChanges ==
  /\ watcher.timers < MaxTimers
  /\ fireuser' = [fireuser EXCEPT !.loggedIn = ~fireuser.loggedIn]
  /\ watcher' = [watcher EXCEPT !.scheduled = TRUE]
  /\ UNCHANGED <<progressVars, hideoutVars, tarkov, consent>>

\* The callback up to its await: return when an invocation is running,
\* otherwise set the flag and start the 100 ms wait.
Callback(w, newValue) ==
  IF w.running
    THEN [w EXCEPT !.skipped = TRUE]
    ELSE [w EXCEPT !.running = TRUE, !.pc = "waiting", !.newValue = newValue]

\* The queued job of the watcher runs: the callback is called with the
\* current value when it differs from the value seen last.
WatcherJobRuns ==
  /\ watcher.scheduled
  /\ watcher' =
       IF fireuser.loggedIn # watcher.seen
         THEN Callback([watcher EXCEPT !.scheduled = FALSE,
                                       !.seen = fireuser.loggedIn],
                       fireuser.loggedIn)
         ELSE [watcher EXCEPT !.scheduled = FALSE]
  /\ UNCHANGED <<progressVars, hideoutVars, tarkov, fireuser, consent>>

\* The 100 ms wait of the running invocation is over: without a store
\* instance it returns; with newValue it binds the store and sets the
\* migration timer; otherwise it unbinds. The flag is cleared on every path.
CallbackResumes(instance) ==
  /\ watcher.pc = "waiting"
  /\ watcher' =
       IF ~instance
         THEN [watcher EXCEPT !.running = FALSE, !.pc = "idle", !.noStore = TRUE]
       ELSE IF watcher.newValue
         THEN [watcher EXCEPT !.running = FALSE, !.pc = "idle", !.bound = TRUE,
                              !.timers = @ + 1]
         ELSE [watcher EXCEPT !.running = FALSE, !.pc = "idle", !.bound = FALSE]
  /\ UNCHANGED <<progressVars, hideoutVars, tarkov, fireuser, consent>>

\* A migration timer fires: tarkovStore.migrateDataIfNeeded().
MigrationTimerFires(saved) ==
  /\ watcher.timers > 0
  /\ watcher' = [watcher EXCEPT !.timers = @ - 1]
  /\ tarkov' = Migrated(tarkov, fireuser.loggedIn, saved)
  /\ UNCHANGED <<progressVars, hideoutVars, fireuser, consent>>

\* ---- usePrivacyConsent ------------------------------------------------------
ConsentChoices == {"accepted", "rejected"}

\* Values of localStorage['tt-analytics-consent']: None is no item, "other"
\* any string that is not a consent choice.
StoredValues == ConsentChoices \cup {None, "other"}

\* The module state of a page that has just loaded, over the localStorage
\* item that earlier sessions left. analytics and clarity are the last
\* signal sent to Firebase analytics and to window.clarity('consent', ...);
\* clarityFn tells whether window.clarity is a function; injected counts the
\* Clarity script elements inserted in the page. choice and last are
\* history: the outcome of the last accept, reject or resetConsent ("lost"
\* when its storage call failed or none was made), and the last operation
\* with whether its storage call worked and whether it was the first
\* operation since the page loaded.
FreshSession(stored) ==
  [consentStatus |-> "unknown", bannerVisible |-> FALSE,
   hasInitialized |-> FALSE, clarityBootstrapped |-> FALSE,
   clarityFn |-> FALSE, stored |-> stored, analytics |-> None,
   clarity |-> None, injected |-> 0, choice |-> "lost",
   last |-> [op |-> None, works |-> FALSE, first |-> FALSE]]

\* The record of an operation called on the module state c.
Called(c, op, works) == [op |-> op, works |-> works, first |-> c.last.op = None]

\* A bootstrap without the clarityBootstrapped guard.
BootstrapClarityTwice(c) ==
  [c EXCEPT !.clarityBootstrapped = TRUE, !.clarityFn = TRUE,
            !.injected = @ + 1]

\* bootstrapClarity(): once per page, install the queueing function and
\* insert the script element.
BootstrapClarity(c) ==
  IF c.clarityBootstrapped
    THEN c
    ELSE [c EXCEPT !.clarityBootstrapped = TRUE, !.clarityFn = TRUE,
                   !.injected = @ + 1]

\* enableClarity().
EnableClarity(c) ==
  LET b == BootstrapClarity(c)
  IN  IF b.clarityFn THEN [b EXCEPT !.clarity = "enable"] ELSE b

\* disableClarity().
DisableClarity(c) ==
  IF c.clarityFn THEN [c EXCEPT !.clarity = "disable"] ELSE c

\* syncAnalyticsWithConsent(status).
SyncAnalyticsWithConsent(c, status) ==
  IF status = "accepted"
    THEN EnableClarity([c EXCEPT !.analytics = "enable"])
  ELSE IF status = "rejected"
    THEN DisableClarity([c EXCEPT !.analytics = "disable"])
  ELSE c

\* readStoredConsent(getStorage()): undefined when the storage cannot be
\* reached or getItem throws.
ReadStoredConsent(c, works) ==
  IF works THEN c.stored ELSE None

\* A persist that never reaches the storage.
PersistConsentDropped(c, works, status) ==
  c

\* persistConsent(getStorage(), status).
PersistConsent(c, works, status) ==
  IF works THEN [c EXCEPT !.stored = status] ELSE c

\* clearStoredConsent(getStorage()).
ClearStoredConsent(c, works) ==
  IF works THEN [c EXCEPT !.stored = None] ELSE c

\* initializeConsent().
InitializeConsent(works) ==
  /\ consent' =
       IF consent.hasInitialized
         THEN [consent EXCEPT !.last = Called(consent, "initializeAgain", works)]
         ELSE LET stored == ReadStoredConsent(consent, works)
                  c == [consent EXCEPT
                          !.hasInitialized = TRUE,
                          !.last = Called(consent, "initialize", works)]
              IN  IF stored \in ConsentChoices
                    THEN [SyncAnalyticsWithConsent(
                            [c EXCEPT !.consentStatus = stored], stored)
                          EXCEPT !.bannerVisible = FALSE]
                    ELSE [c EXCEPT !.consentStatus = "unknown",
                                   !.bannerVisible = TRUE]
  /\ UNCHANGED <<progressVars, hideoutVars, tarkov, fireuser, watcher>>

\* setConsent(status), behind accept() and reject().
SetConsent(status, works) ==
  /\ consent' =
       SyncAnalyticsWithConsent(
         [PersistConsent([consent EXCEPT !.consentStatus = status], works, status)
          EXCEPT !.bannerVisible = FALSE,
                 !.choice = IF works THEN status ELSE "lost",
                 !.last = Called(consent, status, works)],
         status)
  /\ UNCHANGED <<progressVars, hideoutVars, tarkov, fireuser, watcher>>

\* openPreferences().
OpenPreferences ==
  /\ consent' = [consent EXCEPT !.bannerVisible = TRUE,
                                !.last = Called(consent, "openPreferences", FALSE)]
  /\ UNCHANGED <<progressVars, hideoutVars, tarkov, fireuser, watcher>>

\* resetConsent().
ResetConsent(works) ==
  /\ consent' =
       DisableClarity(
         [ClearStoredConsent([consent EXCEPT !.consentStatus = "unknown"], works)
          EXCEPT !.bannerVisible = TRUE,
                 !.analytics = "disable",
                 !.choice = IF works THEN "unknown" ELSE "lost",
                 !.last = Called(consent, "resetConsent", works)])
  /\ UNCHANGED <<progressVars, hideoutVars, tarkov, fireuser, watcher>>

\* The page is loaded again: the module state starts over, localStorage
\* stays.
NewSession ==
  /\ consent' = [FreshSession(consent.stored) EXCEPT !.choice = consent.choice]
  /\ UNCHANGED <<progressVars, hideoutVars, tarkov, fireuser, watcher>>

\* No frontend module has been loaded.
FrontendIdle ==
  /\ tarkov = FreshStore
  /\ fireuser = LoggedOut
  /\ watcher = IdleWatcher
  /\ consent = FreshSession(None)

\* No progress document yet (a read gives exists = false and no data).
NoDocument ==
  [exists |-> FALSE, scalars |-> EmptyMap, taskCompletions |-> EmptyMap,
   taskObjectives |-> EmptyMap]

\* A progress document that earlier sessions filled: actor-level fields and
\* an objective that the requests of this model do not address.
SomeDocument ==
  [exists |-> TRUE, scalars |-> [level |-> 1, displayName |-> "pmc"],
   taskCompletions |-> EmptyMap,
   taskObjectives |-> ("o0" :> [complete |-> TRUE, timestamp |-> 0])]

Init ==
  /\ store \in {NoDocument, SomeDocument}
  /\ clock = 1
  /\ req = [r \in Req |-> IdleReq]
  /\ committed = [t \in Tasks |-> None]
  /\ db = NoTeams
  /\ view = IdleView
  /\ queryResult = NoResult
  /\ hideout = EmptyHideout
  /\ FrontendIdle

\* ---- request bookkeeping -------------------------------------------------
\* A dependency-update promise is finished once it resolved: the catalog load
\* threw ("loadErr"), or updateTaskState returned ("ok") or threw ("err").
PropFinished(st) == st \in {"ok", "err", "loadErr"}
\* updateTaskState has been called by the promise.
PropInvoked(st) == st \in {"run", "runNull", "ok", "err"}

\* The handler's promise and all dependency-update promises it created have
\* settled: no code of the request is left to run.
Settled(r) ==
  /\ req[r].pc = "done"
  /\ \A i \in DOMAIN req[r].prop : PropFinished(req[r].prop[i])

\* A request slot takes a new request when it is idle.
Free(r) == req[r].pc = "idle"

Respond(rec, code, err) == [rec EXCEPT !.pc = "done", !.status = code, !.error = err]

\* ---- updateSingleTask ---------------------------------------------------
\* Synchronous prefix of the handler: permission check, validation, build of
\* updateData, and the call of progressRef.update (still pending afterwards).
StartSingleTask(r, authorized, taskId, state) ==
  /\ Free(r)
  /\ LET new == [IdleReq EXCEPT !.kind = "task", !.authorized = authorized,
                                !.items = <<[id |-> taskId, status |-> state]>>]
     IN req' = [req EXCEPT ![r] =
          IF ~authorized THEN Respond(new, 401, "Unauthorized")
          ELSE IF taskId = NoId THEN Respond(new, 400, "MissingId")
          ELSE IF ~isValidTaskStatus(state) THEN Respond(new, 400, "InvalidState")
          ELSE [new EXCEPT !.pc = "write", !.updateTime = clock,
                           !.updateData = (taskId :> TaskFields(state, clock))]]
  /\ UNCHANGED <<store, clock, committed, db, view, hideoutVars, frontendVars>>

\* ---- updateMultipleTasks ------------------------------------------------
\* The for-in loop over the request body, in key order. acc carries
\* invalidStatusFound, batchUpdateData and updatePromises; the loop breaks at
\* the first invalid status. Pushing a promise runs its async body up to the
\* await of getTaskData(), so the promise is already loading the catalog.
\* Variant of BatchLoop: an invalid status is skipped instead of stopping the
\* loop with invalidStatusFound set.
RECURSIVE BatchLoopSkipsInvalid(_, _, _, _)
BatchLoopSkipsInvalid(taskUpdates, i, updateTime, acc) ==
  IF i > Len(taskUpdates) THEN acc
  ELSE LET taskId == taskUpdates[i].id
           status == taskUpdates[i].status
       IN IF ~isValidTaskStatus(status)
            THEN BatchLoopSkipsInvalid(taskUpdates, i + 1, updateTime, acc)
            ELSE BatchLoopSkipsInvalid(taskUpdates, i + 1, updateTime,
                   [acc EXCEPT
                      !.batchUpdateData = (taskId :> TaskFields(status, updateTime)) @@ @,
                      !.updatePromises = Append(@, "load")])

RECURSIVE BatchLoop(_, _, _, _)
BatchLoop(taskUpdates, i, updateTime, acc) ==
  IF i > Len(taskUpdates) THEN acc
  ELSE LET taskId == taskUpdates[i].id
           status == taskUpdates[i].status
       IN IF ~isValidTaskStatus(status)
            THEN [acc EXCEPT !.invalidStatusFound = TRUE]
            ELSE BatchLoop(taskUpdates, i + 1, updateTime,
                   [acc EXCEPT
                      !.batchUpdateData = (taskId :> TaskFields(status, updateTime)) @@ @,
                      !.updatePromises = Append(@, "load")])

StartMultipleTasks(r, authorized, taskUpdates) ==
  /\ Free(r)
  /\ LET new == [IdleReq EXCEPT !.kind = "tasks", !.authorized = authorized,
                                !.items = taskUpdates]
         acc == BatchLoop(taskUpdates, 1, clock,
                  [invalidStatusFound |-> FALSE, batchUpdateData |-> EmptyMap,
                   updatePromises |-> <<>>])
         run == [new EXCEPT !.updateTime = clock, !.updateData = acc.batchUpdateData,
                            !.prop = acc.updatePromises]
     IN req' = [req EXCEPT ![r] =
          IF ~authorized THEN Respond(new, 401, "Unauthorized")
          ELSE IF Len(taskUpdates) = 0 THEN Respond(new, 400, "InvalidBody")
          ELSE IF acc.invalidStatusFound THEN Respond(run, 400, "InvalidState")
          ELSE [run EXCEPT !.pc = "write"]]
  /\ UNCHANGED <<store, clock, committed, db, view, hideoutVars, frontendVars>>

\* The client sends the body of its last request again, after that request
\* was answered 200 and all its dependency updates ended: the handler runs
\* on the same body with a new Date.now().
RepeatMultipleTasks(r) ==
  /\ Settled(r)
  /\ req[r].kind = "tasks"
  /\ req[r].status = 200
  /\ ~req[r].again
  /\ LET taskUpdates == req[r].items
         new == [IdleReq EXCEPT !.kind = "tasks", !.authorized = TRUE,
                                !.items = taskUpdates, !.again = TRUE,
                                !.once = store.taskCompletions]
         acc == BatchLoop(taskUpdates, 1, clock,
                  [invalidStatusFound |-> FALSE, batchUpdateData |-> EmptyMap,
                   updatePromises |-> <<>>])
     IN req' = [req EXCEPT ![r] =
          [new EXCEPT !.updateTime = clock, !.updateData = acc.batchUpdateData,
                      !.prop = acc.updatePromises, !.pc = "write"]]
  /\ UNCHANGED <<store, clock, committed, db, view, hideoutVars, frontendVars>>

\* ---- updateTaskObjective ------------------------------------------------
Truthy(state) == state # None

\* Variant of ObjectiveState: "failed" is taken like on tasks.
ObjectiveStateAcceptsFailed(state, updateTime) ==
  IF ~Truthy(state) THEN [ok |-> TRUE, upd |-> NoUpdate]
  ELSE IF state \in {"completed", "failed"}
    THEN [ok |-> TRUE,
          upd |-> [set |-> [complete |-> TRUE, timestamp |-> updateTime], del |-> {}]]
  ELSE IF state = "uncompleted"
    THEN [ok |-> TRUE, upd |-> [set |-> [complete |-> FALSE], del |-> {"timestamp"}]]
  ELSE [ok |-> FALSE, upd |-> NoUpdate]

ObjectiveState(state, updateTime) ==
  IF ~Truthy(state) THEN [ok |-> TRUE, upd |-> NoUpdate]
  ELSE IF state = "completed"
    THEN [ok |-> TRUE,
          upd |-> [set |-> [complete |-> TRUE, timestamp |-> updateTime], del |-> {}]]
  ELSE IF state = "uncompleted"
    THEN [ok |-> TRUE, upd |-> [set |-> [complete |-> FALSE], del |-> {"timestamp"}]]
  ELSE [ok |-> FALSE, upd |-> NoUpdate]

CountGiven(count) == count.type # "undefined"

\* Variant of CountValid: the sign is not checked.
CountValidAnyNumber(count) == count.type = "number"

CountValid(count) == count.type = "number" /\ ~(count.val < 0)

\* Variant of NothingToUpdate: the test on count is inverted.
NothingToUpdateInverted(state, count) == ~Truthy(state) /\ CountGiven(count)

\* !state && count == null
NothingToUpdate(state, count) == ~Truthy(state) /\ ~CountGiven(count)

ObjectiveCount(count, upd) ==
  IF CountGiven(count)
    THEN [upd EXCEPT !.set = [k \in (DOMAIN @) \cup {"count"} |->
                                IF k = "count" THEN count.val ELSE @[k]]]
    ELSE upd

StartObjective(r, authorized, objectiveId, state, count) ==
  /\ Free(r)
  /\ LET new == [IdleReq EXCEPT !.kind = "objective", !.authorized = authorized,
                   !.items = <<[id |-> objectiveId, status |-> state, count |-> count]>>]
         st == ObjectiveState(state, clock)
     IN req' = [req EXCEPT ![r] =
          IF ~authorized THEN Respond(new, 401, "Unauthorized")
          ELSE IF objectiveId = NoId THEN Respond(new, 400, "MissingId")
          ELSE IF NothingToUpdate(state, count) THEN Respond(new, 400, "EmptyUpdate")
          ELSE IF ~st.ok THEN Respond(new, 400, "InvalidState")
          ELSE IF CountGiven(count) /\ ~CountValid(count)
            THEN Respond(new, 400, "InvalidCount")
          ELSE [new EXCEPT !.pc = "write", !.updateTime = clock,
                           !.updateData = (objectiveId :> ObjectiveCount(count, st.upd))]]
  /\ UNCHANGED <<store, clock, committed, db, view, hideoutVars, frontendVars>>

\* The status a request body gives for a task id.
ItemStatus(items, id) == items[CHOOSE i \in DOMAIN items : items[i].id = id].status

\* ---- setPlayerLevel -------------------------------------------------------
\* Characters of a levelValue path segment.
Digits == {"0", "7", "8", "9"}
Chars == Digits \cup {"-", "x"}

DigitValue(c) ==
  CASE c = "0" -> 0 [] c = "7" -> 7 [] c = "8" -> 8 [] c = "9" -> 9

NaN == [type |-> "NaN"]

\* The value of the longest prefix of decimal digits of s from position i on,
\* NaN when s has no digit there.
RECURSIVE DigitPrefix(_, _, _, _)
DigitPrefix(s, i, seen, acc) ==
  IF i <= Len(s) /\ s[i] \in Digits
    THEN DigitPrefix(s, i + 1, TRUE, 10 * acc + DigitValue(s[i]))
    ELSE IF seen THEN [type |-> "number", val |-> acc] ELSE NaN

\* parseInt(s, 10): an optional sign, then the leading digits; what follows
\* the digits is ignored.
ParseInt(s) ==
  IF Len(s) > 0 /\ s[1] = "-"
    THEN LET n == DigitPrefix(s, 2, FALSE, 0)
         IN IF n = NaN THEN NaN ELSE [n EXCEPT !.val = -@]
    ELSE DigitPrefix(s, 1, FALSE, 0)

\* isNaN(levelValue) || levelValue < 1
LevelRejected(levelValue) == levelValue = NaN \/ levelValue.val < 1

\* A handler whose rejection of the level does not return: the 400 is sent
\* and the write is issued all the same.
StartLevelNoReturn(r, authorized, segment) ==
  /\ Free(r)
  /\ LET new == [IdleReq EXCEPT !.kind = "level", !.authorized = authorized,
                                !.items = <<[segment |-> segment]>>]
         levelValue == ParseInt(segment)
     IN req' = [req EXCEPT ![r] =
          IF ~authorized THEN Respond(new, 401, "Unauthorized")
          ELSE IF LevelRejected(levelValue)
            THEN [Respond(new, 400, "InvalidCount") EXCEPT
                    !.pc = "set", !.updateTime = clock,
                    !.updateData = [level |-> 0]]
          ELSE [new EXCEPT !.pc = "set", !.updateTime = clock,
                           !.updateData = [level |-> levelValue.val]]]
  /\ UNCHANGED <<store, clock, committed, db, view, hideoutVars, frontendVars>>

StartLevel(r, authorized, segment) ==
  /\ Free(r)
  /\ LET new == [IdleReq EXCEPT !.kind = "level", !.authorized = authorized,
                                !.items = <<[segment |-> segment]>>]
         levelValue == ParseInt(segment)
     IN req' = [req EXCEPT ![r] =
          IF ~authorized THEN Respond(new, 401, "Unauthorized")
          ELSE IF LevelRejected(levelValue) THEN Respond(new, 400, "InvalidCount")
          ELSE [new EXCEPT !.pc = "set", !.updateTime = clock,
                           !.updateData = [level |-> levelValue.val]]]
  /\ UNCHANGED <<store, clock, committed, db, view, hideoutVars, frontendVars>>

\* Firestore set(fields, {merge: true}): the document is created when it does
\* not exist, and fields that are not named keep their values.
SetMerge(doc, fields) ==
  [doc EXCEPT !.exists = TRUE,
              !.scalars = [k \in (DOMAIN @) \cup (DOMAIN fields) |->
                             IF k \in DOMAIN fields THEN fields[k] ELSE @[k]]]

\* await progressRef.set({level: levelValue}, {merge: true}) resolves.
SetLevelOk(r) ==
  /\ req[r].pc = "set"
  /\ store' = SetMerge(store, req[r].updateData)
  /\ req' = [req EXCEPT ![r] = [Respond(req[r], 200, None) EXCEPT !.wrote = TRUE]]
  /\ UNCHANGED <<clock, committed, db, view, hideoutVars, frontendVars>>

\* await progressRef.set(...) rejects.
SetLevelFails(r) ==
  /\ req[r].pc = "set"
  /\ req' = [req EXCEPT ![r] = Respond(req[r], 500, "WriteFailed")]
  /\ UNCHANGED <<store, clock, committed, db, view, hideoutVars, frontendVars>>

\* ---- getTeamProgress ----------------------------------------------------
Range(seq) == {seq[i] : i \in DOMAIN seq}

\* Variant of Dedup: repeated ids are kept.
DedupKeepsAll(ids, acc) == ids

\* [...new Set(ids)]: the first occurrence of every id, in order.
RECURSIVE Dedup(_, _)
Dedup(ids, acc) ==
  IF ids = <<>> THEN acc
  ELSE IF Head(ids) \in Range(acc) THEN Dedup(Tail(ids), acc)
  ELSE Dedup(Tail(ids), Append(acc, Head(ids)))

\* The formatted progress of a member (progressUtils.formatProgress): the
\* model keeps the userId of the shape.
FormatProgress(memberId) == [userId |-> memberId]

\* The reads that a handler starts together and awaits with Promise.all.
Pending(names) == [n \in names |-> "pending"]

Catalogs == {"hideout", "task"}

\* hideoutData === null || taskData === null
CatalogMissing(loads) == \E n \in Catalogs \cap DOMAIN loads : loads[n] = "null"

AllLoaded(loads) == \A n \in DOMAIN loads : loads[n] # "pending"

\* One of the pending reads resolves: a document read with its snapshot, a
\* catalog load with the catalog or with null.
LoadSettles(name, result) ==
  /\ view.pc = "meta"
  /\ name \in DOMAIN view.loads
  /\ view.loads[name] = "pending"
  /\ result = "null" => name \in Catalogs
  /\ view' = [view EXCEPT !.loads[name] = result]
  /\ UNCHANGED <<store, clock, req, committed, db, hideoutVars, frontendVars>>

\* ---- getPlayerProgress --------------------------------------------------
\* Permission check of the handler; the reads of the progress document and
\* of the two catalogs are pending afterwards.
StartPlayerProgress(ownerId, authorized) ==
  /\ view.pc = "idle"
  /\ LET new == [view EXCEPT !.kind = "player", !.owner = ownerId,
                             !.authorized = authorized]
     IN view' = IF authorized
                  THEN [new EXCEPT !.pc = "meta",
                                   !.loads = Pending({"progress", "hideout", "task"})]
                  ELSE [new EXCEPT !.pc = "done", !.status = 401,
                                   !.error = "Unauthorized"]
  /\ UNCHANGED <<store, clock, req, committed, db, hideoutVars, frontendVars>>

\* Promise.all resolves: a null catalog ends the request with 500;
\* otherwise the progress is formatted and sent, also when the progress
\* document does not exist (a warning is logged).
PlayerProgressLoaded ==
  /\ view.pc = "meta" /\ view.kind = "player"
  /\ AllLoaded(view.loads)
  /\ view' = IF CatalogMissing(view.loads)
               THEN [view EXCEPT !.pc = "done", !.status = 500,
                                 !.error = "CatalogUnavailable"]
               ELSE [view EXCEPT !.pc = "done", !.status = 200, !.self = view.owner,
                                 !.data = <<FormatProgress(view.owner)>>]
  /\ UNCHANGED <<store, clock, req, committed, db, hideoutVars, frontendVars>>

\* A read rejects or formatProgress throws: the catch answers 500.
PlayerProgressFails ==
  /\ view.pc = "meta" /\ view.kind = "player"
  /\ view' = [view EXCEPT !.pc = "done", !.status = 500, !.error = "Failed"]
  /\ UNCHANGED <<store, clock, req, committed, db, hideoutVars, frontendVars>>

\* ---- getTeamProgress, continued -----------------------------------------
\* Variant of StartTeamProgress: the permission check is left out.
StartTeamProgressUnchecked(ownerId, authorized) ==
  /\ view.pc = "idle"
  /\ view' = [view EXCEPT !.kind = "team", !.owner = ownerId,
                          !.authorized = authorized, !.pc = "meta",
                          !.loads = Pending({"system", "user", "hideout", "task"})]
  /\ UNCHANGED <<store, clock, req, committed, db, hideoutVars, frontendVars>>

\* Permission check of the handler; the loads of the meta documents and of
\* the catalogs are pending afterwards.
StartTeamProgress(ownerId, authorized) ==
  /\ view.pc = "idle"
  /\ LET new == [view EXCEPT !.kind = "team", !.owner = ownerId,
                             !.authorized = authorized]
     IN view' = IF authorized
                  THEN [new EXCEPT !.pc = "meta",
                                   !.loads = Pending({"system", "user", "hideout", "task"})]
                  ELSE [new EXCEPT !.pc = "done", !.status = 401,
                                   !.error = "Unauthorized"]
  /\ UNCHANGED <<store, clock, req, committed, db, hideoutVars, frontendVars>>

\* Variant of MetaLoaded: the catalogs are not tested for null.
MetaLoadedIgnoresNull ==
  /\ view.pc = "meta" /\ view.kind = "team"
  /\ AllLoaded(view.loads)
  /\ LET teamId == db.team[view.owner]
         loaded == [view EXCEPT !.teamId = teamId,
                                !.hiddenTeammatesMap = db.teamHide[view.owner],
                                !.memberIds = <<view.owner>>]
     IN view' = [loaded EXCEPT !.pc = IF teamId # None THEN "team" ELSE "progress"]
  /\ UNCHANGED <<store, clock, req, committed, db, hideoutVars, frontendVars>>

\* Promise.all of the system and user documents and the two catalogs
\* resolves; a catalog that is null ends the request with 500.
MetaLoaded ==
  /\ view.pc = "meta" /\ view.kind = "team"
  /\ AllLoaded(view.loads)
  /\ LET teamId == db.team[view.owner]
         loaded == [view EXCEPT !.teamId = teamId,
                                !.hiddenTeammatesMap = db.teamHide[view.owner],
                                !.memberIds = <<view.owner>>]
     IN view' = IF CatalogMissing(view.loads)
                  THEN [view EXCEPT !.pc = "done", !.status = 500,
                                    !.error = "CatalogUnavailable"]
                  ELSE [loaded EXCEPT !.pc = IF teamId # None THEN "team" ELSE "progress"]
  /\ UNCHANGED <<store, clock, req, committed, db, hideoutVars, frontendVars>>

\* await teamRef.get() resolves.
TeamLoaded ==
  /\ view.pc = "team"
  /\ view' = [view EXCEPT
       !.pc = "progress",
       !.memberIds = IF db.teamDoc.exists
                       THEN Dedup(db.teamDoc.members \o <<view.owner>>, <<>>)
                       ELSE @]
  /\ UNCHANGED <<store, clock, req, committed, db, hideoutVars, frontendVars>>

\* Variant of HiddenTeammates: the requester is not excluded.
HiddenTeammatesWithSelf(memberIds, ownerId, hiddenTeammatesMap) ==
  LET marked(id) == id \in hiddenTeammatesMap
  IN SelectSeq(memberIds, marked)

HiddenTeammates(memberIds, ownerId, hiddenTeammatesMap) ==
  LET shown(id) == id # ownerId /\ id \in hiddenTeammatesMap
  IN SelectSeq(memberIds, shown)

\* Variant of TeamResponse: a member without a progress document is kept.
TeamResponseKeepsMissing(memberIds, present, hiddenTeammatesMap) ==
  [i \in DOMAIN memberIds |-> FormatProgress(memberIds[i])]

\* Variant of TeamResponse: members marked hidden are left out.
TeamResponseDropsHidden(memberIds, present, hiddenTeammatesMap) ==
  LET kept(id) == id \in present /\ id \notin hiddenTeammatesMap
  IN [i \in DOMAIN SelectSeq(memberIds, kept) |->
        FormatProgress(SelectSeq(memberIds, kept)[i])]

\* The formatted progress of the members whose progress document exists,
\* in member order.
TeamResponse(memberIds, present, hiddenTeammatesMap) ==
  LET found(id) == id \in present
  IN [i \in DOMAIN SelectSeq(memberIds, found) |->
        FormatProgress(SelectSeq(memberIds, found)[i])]

\* Promise.all of the progress documents resolves and the response is sent.
ProgressLoaded ==
  /\ view.pc = "progress"
  /\ view' = [view EXCEPT
       !.pc = "done", !.status = 200, !.self = view.owner,
       !.data = TeamResponse(view.memberIds, db.progress, view.hiddenTeammatesMap),
       !.hiddenTeammates =
          HiddenTeammates(view.memberIds, view.owner, view.hiddenTeammatesMap)]
  /\ UNCHANGED <<store, clock, req, committed, db, hideoutVars, frontendVars>>

\* An awaited read rejects (or formatting throws): the catch answers 500.
TeamProgressFails ==
  /\ view.pc \in {"meta", "team", "progress"} /\ view.kind = "team"
  /\ view' = [view EXCEPT !.pc = "done", !.status = 500, !.error = "Failed"]
  /\ UNCHANGED <<store, clock, req, committed, db, hideoutVars, frontendVars>>

\* The response has been delivered; the next request can be made.
ReleaseView ==
  /\ view.pc = "done"
  /\ view' = [IdleView EXCEPT !.last =
       IF view.kind = "team" /\ view.status = 200
         THEN [owner |-> view.owner, status |-> view.status, data |-> view.data,
               hiddenTeammates |-> view.hiddenTeammates]
         ELSE view.last]
  /\ UNCHANGED <<store, clock, req, committed, db, hideoutVars, frontendVars>>

\* ---- the primary write: await progressRef.update(updateData) -------------
\* Variant of PrimaryWriteOk: the write carries only the first item of the
\* request.
PrimaryWriteOkPartial(r) ==
  /\ req[r].pc = "write"
  /\ store.exists
  /\ LET first == req[r].items[1].id
         part == [id \in {first} \cap DOMAIN req[r].updateData |-> req[r].updateData[id]]
     IN store' = IF req[r].kind = "objective"
                   THEN [store EXCEPT !.taskObjectives = MergeMap(@, part)]
                   ELSE [store EXCEPT !.taskCompletions = MergeMap(@, part)]
  /\ req' = [req EXCEPT ![r] =
       IF req[r].kind = "objective"
         THEN [Respond(req[r], 200, None) EXCEPT !.wrote = TRUE]
       ELSE IF req[r].kind = "task"
         THEN [req[r] EXCEPT !.pc = "props", !.wrote = TRUE, !.prop = <<"load">>]
       ELSE [req[r] EXCEPT !.pc = "props", !.wrote = TRUE]]
  /\ committed' = IF req[r].kind = "objective" THEN committed
                   ELSE [t \in Tasks |->
                           IF t \in DOMAIN req[r].updateData
                             THEN ItemStatus(req[r].items, t) ELSE committed[t]]
  /\ UNCHANGED <<clock, db, view, hideoutVars, frontendVars>>

\* update() resolves only for an existing document; it can always reject
\* (the store is an external service).
PrimaryWriteOk(r) ==
  /\ req[r].pc = "write"
  /\ store.exists
  /\ store' = IF req[r].kind = "objective"
                THEN [store EXCEPT !.taskObjectives = MergeMap(@, req[r].updateData)]
                ELSE [store EXCEPT !.taskCompletions = MergeMap(@, req[r].updateData)]
  /\ req' = [req EXCEPT ![r] =
       IF req[r].kind = "objective"
         THEN [Respond(req[r], 200, None) EXCEPT !.wrote = TRUE]
       ELSE IF req[r].kind = "task"
         THEN [req[r] EXCEPT !.pc = "props", !.wrote = TRUE, !.prop = <<"load">>]
       ELSE [req[r] EXCEPT !.pc = "props", !.wrote = TRUE]]
  /\ committed' = IF req[r].kind = "objective" THEN committed
                   ELSE [t \in Tasks |->
                           IF t \in DOMAIN req[r].updateData
                             THEN ItemStatus(req[r].items, t) ELSE committed[t]]
  /\ UNCHANGED <<clock, db, view, hideoutVars, frontendVars>>

\* Variant of PrimaryWriteFails: the rejection is swallowed and the handler
\* carries on with the dependency update.
PrimaryWriteFailsIgnored(r) ==
  /\ req[r].pc = "write"
  /\ req' = [req EXCEPT ![r] =
       [req[r] EXCEPT !.pc = "props",
                      !.prop = IF req[r].kind = "task" THEN <<"load">> ELSE @]]
  /\ UNCHANGED <<store, clock, committed, db, view, hideoutVars, frontendVars>>

PrimaryWriteFails(r) ==
  /\ req[r].pc = "write"
  /\ req' = [req EXCEPT ![r] = Respond(req[r], 500, "WriteFailed")]
  /\ UNCHANGED <<store, clock, committed, db, view, hideoutVars, frontendVars>>

\* ---- dependency propagation (progressUtils.updateTaskState) -------------
Predecessors(id) == {e[1] : e \in {x \in TaskEdges : x[2] = id}}

Successors(id) == {e[2] : e \in {x \in TaskEdges : x[1] = id}}

\* Transitive closure by traversal with a visited set.
RECURSIVE Traverse(_, _)
Traverse(frontier, visited) ==
  IF frontier = {} THEN visited
  ELSE LET next == (UNION {Successors(n) : n \in frontier}) \ visited
       IN Traverse(next, visited \cup next)

Descendants(id) == Traverse({id}, {})

StatusOf(map, id) ==
  IF id \notin DOMAIN map THEN "uncompleted"
  ELSE IF "failed" \in DOMAIN map[id] /\ map[id].failed THEN "failed"
  ELSE IF "complete" \in DOMAIN map[id] /\ map[id].complete THEN "completed"
  ELSE "uncompleted"

\* The invalid flag of a dependent: set when a direct predecessor failed,
\* cleared when all of them are completed, otherwise left as it is.
InvalidUpdates(map, changed) ==
  LET anyFailed(d) == \E p \in Predecessors(d) : StatusOf(map, p) = "failed"
      allDone(d) == \A p \in Predecessors(d) : StatusOf(map, p) = "completed"
      touched == {d \in Descendants(changed) : anyFailed(d) \/ allDone(d)}
  IN [d \in touched |-> [set |-> [invalid |-> anyFailed(d)], del |-> {}]]

UpdateTaskState(map, changed) == MergeMap(map, InvalidUpdates(map, changed))

\* ---- the dependency-update promise of one item ---------------------------
\* await getTaskData() settles: with the catalog, with null, or by throwing.
\* With the catalog or with null the promise goes on to call updateTaskState.
CatalogResult(result) ==
  CASE result = "data" -> "run"
    [] result = "null" -> "runNull"
    [] OTHER -> "loadErr"

CatalogLoaded(r, i, result) ==
  /\ i \in DOMAIN req[r].prop
  /\ req[r].prop[i] = "load"
  /\ req' = [req EXCEPT ![r].prop[i] = CatalogResult(result)]
  /\ UNCHANGED <<store, clock, committed, db, view, hideoutVars, frontendVars>>

\* await updateTaskState(...) returns; its writes go to the same document.
TaskStateUpdated(r, i) ==
  /\ i \in DOMAIN req[r].prop
  /\ req[r].prop[i] \in {"run", "runNull"}
  /\ store.exists
  /\ store' = IF req[r].prop[i] = "run"
                THEN [store EXCEPT !.taskCompletions = UpdateTaskState(@, req[r].items[i].id)]
                ELSE store
  /\ req' = [req EXCEPT ![r].prop[i] = "ok"]
  /\ UNCHANGED <<clock, committed, db, view, hideoutVars, frontendVars>>

\* Variant of TaskStateFails: the error undoes the primary change of the task.
TaskStateFailsRollsBack(r, i) ==
  /\ i \in DOMAIN req[r].prop
  /\ req[r].prop[i] \in {"run", "runNull"}
  /\ req' = [req EXCEPT ![r].prop[i] = "err"]
  /\ store' = [store EXCEPT !.taskCompletions =
                 [t \in (DOMAIN @) \ {req[r].items[i].id} |-> @[t]]]
  /\ UNCHANGED <<clock, committed, db, view, hideoutVars, frontendVars>>

\* Variant of TaskStateFails: the error is not caught in the promise and
\* reaches the handler's catch, which answers 500.
TaskStateFailsFatal(r, i) ==
  /\ i \in DOMAIN req[r].prop
  /\ req[r].prop[i] \in {"run", "runNull"}
  /\ req' = [req EXCEPT ![r] =
       Respond([req[r] EXCEPT !.prop[i] = "err"], 500, "PropagationFailed")]
  /\ UNCHANGED <<store, clock, committed, db, view, hideoutVars, frontendVars>>

\* await updateTaskState(...) throws; the promise's catch logs the error.
TaskStateFails(r, i) ==
  /\ i \in DOMAIN req[r].prop
  /\ req[r].prop[i] \in {"run", "runNull"}
  /\ req' = [req EXCEPT ![r].prop[i] = "err"]
  /\ UNCHANGED <<store, clock, committed, db, view, hideoutVars, frontendVars>>

\* The handler resumes after the dependency updates and answers 200.
AllSettled(rec) == \A i \in DOMAIN rec.prop : PropFinished(rec.prop[i])

SendSuccess(r) ==
  /\ req[r].pc = "props"
  /\ AllSettled(req[r])
  /\ req' = [req EXCEPT ![r] = Respond(req[r], 200, None)]
  /\ UNCHANGED <<store, clock, committed, db, view, hideoutVars, frontendVars>>

\* The request is over; its slot serves the next request.
Release(r) ==
  /\ Settled(r)
  /\ req' = [req EXCEPT ![r] = IdleReq]
  /\ UNCHANGED <<store, clock, committed, db, view, hideoutVars, frontendVars>>

\* ---- inputs -------------------------------------------------------------
\* Path segments of 1..n characters.
RECURSIVE Segments(_)
Segments(n) ==
  IF n = 0 THEN {}
  ELSE {<<c>> : c \in Chars} \cup {<<c>> \o s : c \in Chars, s \in Segments(n - 1)}

TaskIdInputs == Tasks \cup {NoId}
ObjectiveIdInputs == Objectives \cup {NoId}

\* Request bodies of /progress/tasks: objects with distinct keys, in key
\* order; the empty sequence is the empty (or non-object) body.
RECURSIVE Bodies(_)
Bodies(ids) ==
  {<<>>} \cup
  UNION {{<<[id |-> t, status |-> s]>> \o rest : rest \in Bodies(ids \ {t})} :
           <<t, s>> \in ids \X StatusInputs}

Tick ==
  /\ clock < MaxTime
  /\ clock' = clock + 1
  /\ UNCHANGED <<store, req, committed, db, view, hideoutVars, frontendVars>>

\* Requests on tasks: /progress/task/{taskId} and /progress/tasks.
Next ==
  \/ Tick
  \/ \E r \in Req, a \in BOOLEAN, t \in TaskIdInputs, s \in StatusInputs :
       StartSingleTask(r, a, t, s)
  \/ \E r \in Req, a \in BOOLEAN, b \in Bodies(Tasks) : StartMultipleTasks(r, a, b)
  \/ \E r \in Req : PrimaryWriteOk(r)
  \/ \E r \in Req : PrimaryWriteFails(r)
  \/ \E r \in Req, i \in 1..Cardinality(Tasks), res \in {"data", "null", "throw"} :
       CatalogLoaded(r, i, res)
  \/ \E r \in Req, i \in 1..Cardinality(Tasks) : TaskStateUpdated(r, i)
  \/ \E r \in Req, i \in 1..Cardinality(Tasks) : TaskStateFails(r, i)
  \/ \E r \in Req : SendSuccess(r)
  \/ \E r \in Req : Release(r)

Spec == Init /\ [][Next]_vars

\* Requests on task objectives: /progress/task/objective/{objectiveId}.
NextObjective ==
  \/ Tick
  \/ \E r \in Req, a \in BOOLEAN, o \in ObjectiveIdInputs, s \in ObjStateInputs,
        c \in CountInputs : StartObjective(r, a, o, s, c)
  \/ \E r \in Req : PrimaryWriteOk(r)
  \/ \E r \in Req : PrimaryWriteFails(r)
  \/ \E r \in Req : Release(r)

SpecObjective == Init /\ [][NextObjective]_vars

\* Requests on the level: /progress/level/{levelValue}.
NextLevel ==
  \/ Tick
  \/ \E r \in Req, a \in BOOLEAN, seg \in Segments(MaxSegment) : StartLevel(r, a, seg)
  \/ \E r \in Req : SetLevelOk(r)
  \/ \E r \in Req : SetLevelFails(r)
  \/ \E r \in Req : Release(r)

SpecLevel == Init /\ [][NextLevel]_vars

\* A progress document with task history: t1 failed earlier, which marked its
\* dependent t2 invalid.
UsedDocument ==
  [SomeDocument EXCEPT !.taskCompletions =
     ("t1" :> [complete |-> TRUE, failed |-> TRUE, timestamp |-> 0]) @@
     ("t2" :> [invalid |-> TRUE])]

InitTwice ==
  /\ store \in {NoDocument, SomeDocument, UsedDocument}
  /\ clock = 1
  /\ req = [r \in Req |-> IdleReq]
  /\ committed = [t \in Tasks |-> None]
  /\ db = NoTeams
  /\ view = IdleView
  /\ queryResult = NoResult
  /\ hideout = EmptyHideout
  /\ FrontendIdle

\* One /progress/tasks body applied, and then applied again.
NextTwice ==
  \/ Tick
  \/ \E r \in Req, a \in BOOLEAN, b \in Bodies(Tasks) : StartMultipleTasks(r, a, b)
  \/ \E r \in Req : RepeatMultipleTasks(r)
  \/ \E r \in Req : PrimaryWriteOk(r)
  \/ \E r \in Req : PrimaryWriteFails(r)
  \/ \E r \in Req, i \in 1..Cardinality(Tasks), res \in {"data", "null", "throw"} :
       CatalogLoaded(r, i, res)
  \/ \E r \in Req, i \in 1..Cardinality(Tasks) : TaskStateUpdated(r, i)
  \/ \E r \in Req, i \in 1..Cardinality(Tasks) : TaskStateFails(r, i)
  \/ \E r \in Req : SendSuccess(r)

SpecTwice == InitTwice /\ [][NextTwice]_vars

\* Two requests of the same actor in flight at once, each in its own
\* invocation of updateSingleTask.
Racers == {"r1", "r2"}

InitRace ==
  /\ store \in {NoDocument, SomeDocument, UsedDocument}
  /\ clock = 1
  /\ req = [r \in Racers |-> IdleReq]
  /\ committed = [t \in Tasks |-> None]
  /\ db = NoTeams
  /\ view = IdleView
  /\ queryResult = NoResult
  /\ hideout = EmptyHideout
  /\ FrontendIdle

NextRace ==
  \/ Tick
  \/ \E r \in Racers, a \in BOOLEAN, t \in TaskIdInputs, s \in StatusInputs :
       StartSingleTask(r, a, t, s)
  \/ \E r \in Racers : PrimaryWriteOk(r)
  \/ \E r \in Racers : PrimaryWriteFails(r)
  \/ \E r \in Racers, res \in {"data", "null", "throw"} : CatalogLoaded(r, 1, res)
  \/ \E r \in Racers : TaskStateUpdated(r, 1)
  \/ \E r \in Racers : TaskStateFails(r, 1)
  \/ \E r \in Racers : SendSuccess(r)

SpecRace == InitRace /\ [][NextRace]_vars

\* Member lists of a team document: up to n ids, possibly repeated and
\* possibly without the requester.
RECURSIVE MemberLists(_)
MemberLists(n) ==
  IF n = 0 THEN {<<>>}
  ELSE MemberLists(n - 1) \cup {Append(m, u) : m \in MemberLists(n - 1), u \in Users}

InitTeam ==
  /\ store = NoDocument
  /\ clock = 1
  /\ req = [r \in Req |-> IdleReq]
  /\ committed = [t \in Tasks |-> None]
  /\ db \in [team : [Users -> {None, TeamId}],
              teamHide : [Users -> SUBSET Users],
              teamDoc : {[exists |-> FALSE, members |-> <<>>]} \cup
                        [exists : {TRUE}, members : MemberLists(MaxMembers)],
              progress : SUBSET Users]
  /\ view = IdleView
  /\ queryResult = NoResult
  /\ hideout = EmptyHideout
  /\ FrontendIdle

\* Read requests: /progress and /team/progress.
NextTeam ==
  \/ \E u \in Users, a \in BOOLEAN : StartPlayerProgress(u, a)
  \/ \E u \in Users, a \in BOOLEAN : StartTeamProgress(u, a)
  \/ \E n \in {"progress", "system", "user", "hideout", "task"}, res \in {"data", "null"} :
       LoadSettles(n, res)
  \/ PlayerProgressLoaded
  \/ PlayerProgressFails
  \/ MetaLoaded
  \/ TeamLoaded
  \/ ProgressLoaded
  \/ TeamProgressFails
  \/ ReleaseView

SpecTeam == InitTeam /\ [][NextTeam]_vars

\* A team of a and b, both with progress documents; a hides b.
OneTeam ==
  [team |-> [u \in Users |-> TeamId],
   teamHide |-> [u \in Users |-> IF u = "a" THEN {"b"} ELSE {}],
   teamDoc |-> [exists |-> TRUE, members |-> <<"a", "b">>], progress |-> Users]

InitAuth ==
  /\ store \in {NoDocument, SomeDocument}
  /\ clock = 1
  /\ req = [r \in Req |-> IdleReq]
  /\ committed = [t \in Tasks |-> None]
  /\ db \in {NoTeams, OneTeam}
  /\ view = IdleView
  /\ queryResult = NoResult
  /\ hideout = EmptyHideout
  /\ FrontendIdle

\* One request of a write endpoint and one of a read endpoint, with or
\* without the permission of the endpoint.
NextAuth ==
  \/ \E r \in Req, a \in BOOLEAN, t \in TaskIdInputs, s \in StatusInputs :
       StartSingleTask(r, a, t, s)
  \/ \E r \in Req, a \in BOOLEAN, b \in Bodies({"t1"}) : StartMultipleTasks(r, a, b)
  \/ \E r \in Req, a \in BOOLEAN, o \in ObjectiveIdInputs, s \in ObjStateInputs,
        c \in CountInputs : StartObjective(r, a, o, s, c)
  \/ \E r \in Req, a \in BOOLEAN, seg \in Segments(1) : StartLevel(r, a, seg)
  \/ \E u \in Users, a \in BOOLEAN : StartPlayerProgress(u, a)
  \/ \E u \in Users, a \in BOOLEAN : StartTeamProgress(u, a)
  \/ \E r \in Req : PrimaryWriteOk(r)
  \/ \E r \in Req : PrimaryWriteFails(r)
  \/ \E r \in Req : SetLevelOk(r)
  \/ \E r \in Req : SetLevelFails(r)
  \/ \E r \in Req, i \in {1}, res \in {"data", "null", "throw"} :
       CatalogLoaded(r, i, res)
  \/ \E r \in Req, i \in {1} : TaskStateUpdated(r, i)
  \/ \E r \in Req, i \in {1} : TaskStateFails(r, i)
  \/ \E r \in Req : SendSuccess(r)
  \/ \E n \in {"progress", "system", "user", "hideout", "task"}, res \in {"data", "null"} :
       LoadSettles(n, res)
  \/ PlayerProgressLoaded
  \/ PlayerProgressFails
  \/ MetaLoaded
  \/ TeamLoaded
  \/ ProgressLoaded
  \/ TeamProgressFails

SpecAuth == InitAuth /\ [][NextAuth]_vars

\* ---- hideout catalogs ------------------------------------------------------
\* Two stations of two levels each. Construction times are distinct powers
\* of two, so that a sum tells which levels went into it and how often.
LevelIds == {"s1a", "s1b", "s2a", "s2b"}
ConstructionTime == ("s1a" :> 1) @@ ("s1b" :> 2) @@ ("s2a" :> 4) @@ ("s2b" :> 8)
ItemRequirements ==
  ("s1a" :> <<[id |-> "rq1", item |-> "bolts"]>>) @@
  ("s1b" :> <<[id |-> "rq2", item |-> None], [id |-> "rq3", item |-> "wires"]>>) @@
  ("s2a" :> <<>>) @@ ("s2b" :> <<[id |-> "rq4", item |-> "bolts"]>>)

HideoutLevel(id, number, requirements) ==
  [id |-> id, level |-> number, stationLevelRequirements |-> requirements,
   constructionTime |-> ConstructionTime[id], itemRequirements |-> ItemRequirements[id]]

\* What a requirement can name: a level of a station, a level number that
\* the station does not have, or no station.
RequirementInputs ==
  [station : {"S1", "S2"}, level : {1, 2}] \cup
  {[station |-> "S1", level |-> 3], [station |-> None, level |-> 1]}

RequirementSets(n) == {rs \in SUBSET RequirementInputs : Cardinality(rs) <= n}

\* The level numbers of station S1, in array order: they need not follow the
\* positions.
LevelNumbers == {<<1, 2>>, <<2, 1>>}

Catalog(numbers, ra, rb, rc, rd) ==
  [hasStations |-> TRUE,
   hideoutStations |->
     <<[id |-> "S1", levels |-> <<HideoutLevel("s1a", numbers[1], ra),
                                  HideoutLevel("s1b", numbers[2], rb)>>],
       [id |-> "S2", levels |-> <<HideoutLevel("s2a", 1, rc),
                                  HideoutLevel("s2b", 2, rd)>>]>>]

HideoutResults ==
  {Catalog(numbers, ra, rb, rc, rd) :
     numbers \in LevelNumbers, ra \in RequirementSets(0), rb \in RequirementSets(1),
     rc \in RequirementSets(1), rd \in RequirementSets(MaxReqs)}

\* Later results of the query: no stations, an empty station list, one
\* station, and a catalog with a chain.
RefreshResults ==
  {NoResult,
   [hasStations |-> TRUE, hideoutStations |-> <<>>],
   [hasStations |-> TRUE,
    hideoutStations |-> <<[id |-> "S2", levels |-> <<HideoutLevel("s2a", 1, {})>>]>>],
   Catalog(<<1, 2>>, {}, {[station |-> "S1", level |-> 1]}, {},
           {[station |-> "S1", level |-> 2]})}

\* useHideoutData() has been set up: the immediate watch has run on the
\* first result.
InitHideout ==
  /\ store = NoDocument
  /\ clock = 1
  /\ req = [r \in Req |-> IdleReq]
  /\ committed = [t \in Tasks |-> None]
  /\ db = NoTeams
  /\ view = IdleView
  /\ queryResult \in HideoutResults
  /\ hideout = WatchQueryResult(queryResult, EmptyHideout)
  /\ FrontendIdle

NextHideout ==
  \/ \E newResult \in RefreshResults : QueryResultChanges(newResult)
  \/ WatchFires
  \/ \E moduleId \in LevelIds \cup {"unknown"} : TotalTimeAsked(moduleId)

SpecHideout == InitHideout /\ [][NextHideout]_vars

\* ---- records of the tarkov store ---------------------------------------------
\* A field that is absent or holds one of the values.
Opt(k, values) == {EmptyMap} \cup {k :> v : v \in values}

Done == "t1" :> [complete |-> TRUE]

\* The flat fields of a record written before the game modes existed.
LegacyRecords ==
  {a @@ b @@ c @@ d :
     a \in Opt("level", {10}), b \in Opt("displayName", {"Bob"}),
     c \in Opt("pmcFaction", {"BEAR"}), d \in Opt("taskCompletions", {Done})}

FullProgress ==
  [level |-> 10, pmcFaction |-> "BEAR", displayName |-> "Bob",
   taskCompletions |-> Done]

\* One mode's progress as a document can hold it: complete, or with some of
\* its fields never written.
Buckets ==
  {DefaultProgress, FullProgress} \cup
  {a @@ b @@ c :
     a \in Opt("level", {10}), b \in Opt("displayName", {"Bob"}),
     c \in Opt("taskCompletions", {Done})}

\* The mode selector, the edition and the two modes' progress of a record.
ModeRecords ==
  {a @@ b @@ c @@ d :
     a \in Opt("currentGameMode", GameModes), b \in Opt("gameEdition", {2}),
     c \in Opt("pvp", Buckets), d \in Opt("pve", {DefaultProgress, FullProgress})}

\* The states the binding or the local copy can have loaded into the store.
StoreRecords == {m @@ l : m \in ModeRecords, l \in LegacyRecords}

\* The store holds a loaded record; the user's document is absent or holds
\* the same record; the user is signed in or not.
InitStore ==
  /\ store = NoDocument
  /\ clock = 1
  /\ req = [r \in Req |-> IdleReq]
  /\ committed = [t \in Tasks |-> None]
  /\ db = NoTeams
  /\ view = IdleView
  /\ queryResult = NoResult
  /\ hideout = EmptyHideout
  /\ \E record \in StoreRecords, exists \in BOOLEAN :
       tarkov = [FreshStore EXCEPT
                   !.state = record,
                   !.remote = IF exists THEN [exists |-> TRUE, data |-> record]
                              ELSE NoRemote]
  /\ fireuser \in {[loggedIn |-> b] : b \in BOOLEAN}
  /\ watcher = IdleWatcher
  /\ consent = FreshSession(None)

NextStore ==
  \/ \E saved \in BOOLEAN : MigrateDataIfNeeded(saved)
  \/ \E saved \in BOOLEAN : ResetCurrentGameModeData(saved)
  \/ ResetWritten
  \/ ResetFails

SpecStore == InitStore /\ [][NextStore]_vars

\* ---- the watcher over a store with a legacy record ----------------------------
InitWatch ==
  /\ store = NoDocument
  /\ clock = 1
  /\ req = [r \in Req |-> IdleReq]
  /\ committed = [t \in Tasks |-> None]
  /\ db = NoTeams
  /\ view = IdleView
  /\ queryResult = NoResult
  /\ hideout = EmptyHideout
  /\ \E record \in {DefaultState, [level |-> 10, taskCompletions |-> Done]} :
       tarkov = [FreshStore EXCEPT !.state = record]
  /\ fireuser = LoggedOut
  /\ watcher = IdleWatcher
  /\ consent = FreshSession(None)

NextWatch ==
  \/ LoggedInChanges
  \/ WatcherJobRuns
  \/ \E instance \in BOOLEAN : CallbackResumes(instance)
  \/ \E saved \in BOOLEAN : MigrationTimerFires(saved)

SpecWatch == InitWatch /\ [][NextWatch]_vars

\* ---- consent over the sessions of one browser ---------------------------------
InitConsent ==
  /\ store = NoDocument
  /\ clock = 1
  /\ req = [r \in Req |-> IdleReq]
  /\ committed = [t \in Tasks |-> None]
  /\ db = NoTeams
  /\ view = IdleView
  /\ queryResult = NoResult
  /\ hideout = EmptyHideout
  /\ tarkov = FreshStore
  /\ fireuser = LoggedOut
  /\ watcher = IdleWatcher
  /\ \E stored \in StoredValues : consent = FreshSession(stored)

NextConsent ==
  \/ \E works \in BOOLEAN : InitializeConsent(works)
  \/ \E status \in ConsentChoices, works \in BOOLEAN : SetConsent(status, works)
  \/ OpenPreferences
  \/ \E works \in BOOLEAN : ResetConsent(works)
  \/ NewSession

SpecConsent == InitConsent /\ [][NextConsent]_vars

\* Handlers never wait forever on the store or on the catalog loader (both
\* are bounded by the transport's timeouts) and a runnable continuation runs;
\* updateTaskState is not assumed to return.
FairSpec ==
  /\ Spec
  /\ \A r \in Req : WF_vars(PrimaryWriteOk(r) \/ PrimaryWriteFails(r))
  /\ \A r \in Req : WF_vars(\E i \in 1..Cardinality(Tasks), res \in {"data", "null", "throw"} :
                              CatalogLoaded(r, i, res))
  /\ \A r \in Req : WF_vars(SendSuccess(r))

\* ---- properties ---------------------------------------------------------
\* The complete, failed and timestamp fields of every stored task.
PrimaryFields(map) ==
  [t \in Tasks |->
     IF t \in DOMAIN map
       THEN [k \in (DOMAIN map[t]) \cap {"complete", "failed", "timestamp"} |-> map[t][k]]
       ELSE EmptyMap]

HasInvalidStatus(rec) == \E i \in DOMAIN rec.items : ~(rec.items[i].status \in TaskStatus)

\* The stored record of task id is exactly what a commit of status at time
\* stamp leaves: complete, failed, and a timestamp only when not uncompleted.
StoredAs(map, id, status, stamp) ==
  /\ id \in DOMAIN map
  /\ {"complete", "failed"} \subseteq DOMAIN map[id]
  /\ map[id].complete = (status # "uncompleted")
  /\ map[id].failed = (status = "failed")
  /\ IF status = "uncompleted" THEN "timestamp" \notin DOMAIN map[id]
     ELSE "timestamp" \in DOMAIN map[id] /\ map[id].timestamp = stamp

\* C1: every step of an authorized setTasksState request whose body has an
\* item with an unrecognized status leaves the request answered 400
\* InvalidState with no primary write issued, and leaves the complete, failed
\* and timestamp fields of every stored task as they were.
C1_InvalidBatchRejected ==
  [][\A r \in Req :
       (req'[r].kind = "tasks" /\ req'[r].authorized /\ HasInvalidStatus(req'[r])
          /\ req'[r] # req[r])
       => /\ req'[r].status = 400
          /\ req'[r].error = "InvalidState"
          /\ ~req'[r].wrote
          /\ PrimaryFields(store'.taskCompletions) = PrimaryFields(store.taskCompletions)
          /\ committed' = committed]_vars

\* A rejected batch <valid item, invalid item> whose valid item would have
\* changed a stored task, after the promise of the valid item has run.
C1_Witness ==
  \E r \in Req :
    /\ req[r].kind = "tasks" /\ req[r].authorized /\ req[r].status = 400
    /\ Len(req[r].items) = 2
    /\ req[r].items[1].status = "completed"
    /\ req[r].items[2].status = "bogus"
    /\ req[r].prop = <<"ok">>
    /\ committed[req[r].items[1].id] = "failed"
    /\ StatusOf(store.taskCompletions, req[r].items[1].id) = "failed"

\* C2: in setTasksState, updateTaskState has been called for an item only if
\* the batch's primary write has committed.
C2_PropagationOnlyAfterCommit ==
  \A r \in Req :
    req[r].kind = "tasks" =>
      \A i \in DOMAIN req[r].prop : PropInvoked(req[r].prop[i]) => req[r].wrote

\* C3: in setTaskState the dependency update starts only after the primary
\* write succeeded; a request whose primary write failed is answered 500 and
\* never starts it.
C3_SingleTaskWriteFirst ==
  \A r \in Req :
    (req[r].kind = "task" /\ req[r].authorized /\ req[r].items[1].id # NoId
       /\ req[r].items[1].status \in TaskStatus)
    => /\ req[r].prop # <<>> => req[r].wrote
       /\ (req[r].pc = "done" /\ ~req[r].wrote) => (req[r].status = 500 /\ req[r].prop = <<>>)
       /\ req[r].status = 500 => ~req[r].wrote

C3_Witness ==
  \E r \in Req :
    /\ req[r].kind = "task" /\ req[r].status = 500 /\ store.exists
    /\ req[r].items[1].status = "failed"

\* C4: in setTaskState, once the primary write succeeded and the dependency
\* update failed (catalog load or updateTaskState threw), the only response
\* is 200 and the stored record of the task is the requested state.
C4_PropagationFailureKeepsCommit ==
  \A r \in Req :
    (req[r].kind = "task" /\ req[r].wrote /\ req[r].prop # <<>>
       /\ req[r].prop[1] \in {"loadErr", "err"})
    => /\ req[r].status \in {0, 200}
       /\ req[r].pc = "done" => req[r].status = 200
       /\ StoredAs(store.taskCompletions, req[r].items[1].id, req[r].items[1].status,
                   req[r].updateTime)

C4_Witness ==
  \E r \in Req :
    /\ req[r].kind = "task" /\ req[r].wrote /\ req[r].prop = <<"err">>
    /\ req[r].pc = "done" /\ req[r].status = 200
    /\ req[r].items[1].status = "failed"

\* C5: in a committed setTasksState batch where the dependency update of an
\* item failed, every other item's dependency update can still take its next
\* step (load the catalog, call and finish updateTaskState), the response is
\* sent only when all of them have settled, and it is 200.
C5_BatchPropagationIndependent ==
  \A r \in Req :
    (req[r].kind = "tasks" /\ req[r].wrote
       /\ \E j \in DOMAIN req[r].prop : req[r].prop[j] \in {"loadErr", "err"})
    => /\ req[r].status \in {0, 200}
       /\ req[r].pc = "done" => (req[r].status = 200 /\ AllSettled(req[r]))
       /\ DOMAIN req[r].prop = DOMAIN req[r].items
       /\ \A i \in DOMAIN req[r].prop :
            /\ req[r].prop[i] = "load" => ENABLED CatalogLoaded(r, i, "data")
            /\ req[r].prop[i] = "run" => ENABLED TaskStateUpdated(r, i)

\* A committed batch of two items answered 200: updateTaskState threw for
\* the first item and was called and returned for the second.
C5_Witness ==
  \E r \in Req :
    /\ req[r].kind = "tasks" /\ req[r].wrote /\ req[r].status = 200
    /\ req[r].prop = <<"err", "ok">>

\* C6: once the primary write of setTaskState or setTasksState has committed,
\* the response is eventually sent, whether or not updateTaskState returns.
C6_ResponseNotBlockedByPropagation ==
  \A r \in Req :
    (req[r].kind \in {"task", "tasks"} /\ req[r].wrote) ~> (req[r].status # 0)

\* C7: every task changed by a committed setTaskState or setTasksState write
\* is stored as the last state committed for it: complete and failed as that
\* state says, a timestamp exactly when it is completed or failed.
C7_RecordFollowsLastCommit ==
  \A t \in Tasks :
    committed[t] # None =>
      /\ t \in DOMAIN store.taskCompletions
      /\ {"complete", "failed"} \subseteq DOMAIN store.taskCompletions[t]
      /\ store.taskCompletions[t].complete = (committed[t] # "uncompleted")
      /\ store.taskCompletions[t].failed = (committed[t] = "failed")
      /\ ("timestamp" \in DOMAIN store.taskCompletions[t]) <=> (committed[t] # "uncompleted")

\* t1 is stored uncompleted, without timestamp, after having been failed: the
\* invalid flag of its dependent t2 is set only while t1 is failed.
C7_Witness ==
  /\ committed["t1"] = "uncompleted"
  /\ DOMAIN store.taskCompletions["t1"] = {"complete", "failed"}
  /\ "t2" \in DOMAIN store.taskCompletions
  /\ "invalid" \in DOMAIN store.taskCompletions["t2"]
  /\ store.taskCompletions["t2"].invalid

\* An authorized setObjective request with an objective id.
ObjectiveRequest(rec) ==
  rec.kind = "objective" /\ rec.authorized /\ rec.items[1].id # NoId

\* A supplied count that is not a number, or a negative number.
BadCount(count) == count.type = "string" \/ (count.type = "number" /\ count.val < 0)

\* C8: every step of an authorized setObjective request that carries neither
\* a state nor a count leaves it answered 400 EmptyUpdate with no write
\* issued and the document as it was.
C8_EmptyObjectiveUpdate ==
  [][\A r \in Req :
       (ObjectiveRequest(req'[r]) /\ req'[r].items[1].status = None
          /\ req'[r].items[1].count.type = "undefined" /\ req'[r] # req[r])
       => /\ req'[r].status = 400
          /\ req'[r].error = "EmptyUpdate"
          /\ ~req'[r].wrote
          /\ store' = store]_vars

C8_Witness ==
  \E r \in Req :
    /\ ObjectiveRequest(req[r]) /\ req[r].items[1].status = None
    /\ req[r].items[1].count.type = "undefined"
    /\ req[r].status = 400
    /\ req[r].items[1].id \in DOMAIN store.taskObjectives

\* C9 (as claimed): an authorized setObjective request with a negative or
\* non-numeric count is answered 400 InvalidCount and writes nothing.
C9_BadCountIsInvalidCount ==
  \A r \in Req :
    (ObjectiveRequest(req[r]) /\ BadCount(req[r].items[1].count))
    => (req[r].status = 400 /\ req[r].error = "InvalidCount" /\ ~req[r].wrote)

\* C9 (amended): every step of an authorized setObjective request with a
\* negative or non-numeric count leaves it answered 400 with no write issued
\* and the document as it was; the error is InvalidCount when the state is
\* absent, completed or uncompleted, and InvalidState for any other state.
C9_BadCountRejected ==
  [][\A r \in Req :
       (ObjectiveRequest(req'[r]) /\ BadCount(req'[r].items[1].count) /\ req'[r] # req[r])
       => /\ req'[r].status = 400
          /\ req'[r].error =
               IF req'[r].items[1].status \in {None, "completed", "uncompleted"}
                 THEN "InvalidCount" ELSE "InvalidState"
          /\ ~req'[r].wrote
          /\ store' = store]_vars

\* A request {state: completed, count: -1} rejected while the objective is
\* stored uncompleted.
C9_Witness ==
  \E r \in Req :
    /\ ObjectiveRequest(req[r]) /\ req[r].items[1].status = "completed"
    /\ req[r].items[1].count = [type |-> "number", val |-> -1]
    /\ req[r].status = 400 /\ req[r].error = "InvalidCount"
    /\ req[r].items[1].id \in DOMAIN store.taskObjectives
    /\ "complete" \in DOMAIN store.taskObjectives[req[r].items[1].id]
    /\ ~store.taskObjectives[req[r].items[1].id].complete

\* C10 (as claimed): setObjective answers InvalidState only for a state that
\* is none of uncompleted, completed, failed.
C10_ThreeStatesAccepted ==
  \A r \in Req :
    (ObjectiveRequest(req[r]) /\ req[r].items[1].status \in TaskStatus)
    => req[r].error # "InvalidState"

\* C10 (amended): setObjective answers InvalidState exactly for a supplied
\* state that is neither completed nor uncompleted; a request with one of
\* these two states and no bad count goes on to the store write, and once
\* written the objective is stored complete with the request's timestamp,
\* or not complete without timestamp.
C10_TwoStatesAccepted ==
  \A r \in Req :
    ObjectiveRequest(req[r]) =>
      LET state == req[r].items[1].status
          id == req[r].items[1].id
      IN /\ (req[r].error = "InvalidState") <=> (state \notin {None, "completed", "uncompleted"})
         /\ (state \in {"completed", "uncompleted"} /\ ~BadCount(req[r].items[1].count))
              => (req[r].pc = "write" \/ req[r].wrote \/ req[r].status = 500)
         /\ (req[r].wrote /\ state \in {"completed", "uncompleted"})
              => /\ id \in DOMAIN store.taskObjectives
                 /\ "complete" \in DOMAIN store.taskObjectives[id]
                 /\ store.taskObjectives[id].complete = (state = "completed")
                 /\ IF state = "completed"
                      THEN /\ "timestamp" \in DOMAIN store.taskObjectives[id]
                           /\ store.taskObjectives[id].timestamp = req[r].updateTime
                      ELSE "timestamp" \notin DOMAIN store.taskObjectives[id]

\* An objective stored completed with timestamp and count is set to
\* uncompleted: complete is false, the timestamp is gone, the count is kept.
C10_Witness ==
  \E r \in Req :
    /\ ObjectiveRequest(req[r]) /\ req[r].items[1].status = "uncompleted"
    /\ req[r].wrote /\ req[r].status = 200
    /\ DOMAIN store.taskObjectives[req[r].items[1].id] = {"complete", "count"}

\* An authorized setLevel request.
LevelRequest(rec) == rec.kind = "level" /\ rec.authorized

\* The path segment is written as a decimal integer: digits, with or without
\* a leading minus sign.
NumericSegment(s) ==
  LET first == IF s[1] = "-" THEN 2 ELSE 1
  IN first <= Len(s) /\ \A i \in first..Len(s) : s[i] \in Digits

\* The actor-level fields other than level.
OtherScalars(doc) == [k \in (DOMAIN doc.scalars) \ {"level"} |-> doc.scalars[k]]

\* C11: every step of an authorized setLevel request whose path segment is
\* not a number, or is a number below 1, leaves it answered 400 InvalidCount
\* with the document as it was; a request with a level of 1 or more changes
\* nothing but the level field, and once written is answered 200 with that
\* level stored.
C11_LevelValidatedAndMerged ==
  [][\A r \in Req :
       (LevelRequest(req'[r]) /\ req'[r] # req[r])
       => LET seg == req'[r].items[1].segment
          IN IF NumericSegment(seg) /\ ParseInt(seg).val >= 1
               THEN /\ OtherScalars(store') = OtherScalars(store)
                    /\ store'.taskCompletions = store.taskCompletions
                    /\ store'.taskObjectives = store.taskObjectives
                    /\ req'[r].wrote =>
                         (req'[r].status = 200 /\ store'.scalars.level = ParseInt(seg).val)
               ELSE /\ req'[r].status = 400
                    /\ req'[r].error = "InvalidCount"
                    /\ ~req'[r].wrote
                    /\ store' = store]_vars

\* C12: an authorized setLevel request for a level above 79 is never written
\* and never answered 200.
C12_LevelAtMost79 ==
  \A r \in Req :
    (LevelRequest(req[r]) /\ ParseInt(req[r].items[1].segment) # NaN
       /\ ParseInt(req[r].items[1].segment).val > MaxLevel)
    => (~req[r].wrote /\ req[r].status # 200)

\* C13: the store write of a setTaskState, setTasksState or setObjective
\* request can succeed whatever the document's state, in particular when the
\* actor has no progress document yet.
C13_FirstWriteCreatesRecord ==
  \A r \in Req : req[r].pc = "write" => ENABLED PrimaryWriteOk(r)

\* The stored entry of id, empty when there is none.
Entry(map, id) == IF id \in DOMAIN map THEN map[id] ELSE EmptyMap

\* Field k of the stored entry of id: <<value>>, or <<>> when it is absent.
Field(map, id, k) == IF k \in DOMAIN Entry(map, id) THEN <<Entry(map, id)[k]>> ELSE <<>>

\* C14: the primary write of a setTaskState request on task X sets X's
\* complete, failed and timestamp as requested and changes nothing else: not
\* X's other fields, not the entry of any other task, not the task
\* objectives, not the actor-level fields.
C14_SingleTaskWriteFrame ==
  [][\A r \in Req :
       (req[r].kind = "task" /\ ~req[r].wrote /\ req'[r].wrote)
       => LET x == req[r].items[1].id
              old == store.taskCompletions
              new == store'.taskCompletions
          IN /\ StoredAs(new, x, req[r].items[1].status, req[r].updateTime)
             /\ \A k \in (DOMAIN Entry(old, x) \cup DOMAIN Entry(new, x))
                           \ {"complete", "failed", "timestamp"} :
                  Field(new, x, k) = Field(old, x, k)
             /\ DOMAIN new = DOMAIN old \cup {x}
             /\ \A t \in (DOMAIN old) \ {x} : new[t] = old[t]
             /\ store'.taskObjectives = store.taskObjectives
             /\ store'.scalars = store.scalars
             /\ store'.exists = store.exists]_vars

\* t2 has just been written by a setTaskState request while the document
\* holds a failed t1, the invalid flag of t2, an objective and the level.
C14_Witness ==
  \E r \in Req :
    /\ req[r].kind = "task" /\ req[r].wrote /\ req[r].prop = <<"load">>
    /\ req[r].items[1].id = "t2"
    /\ StatusOf(store.taskCompletions, "t1") = "failed"
    /\ Field(store.taskCompletions, "t2", "invalid") = <<TRUE>>
    /\ "o0" \in DOMAIN store.taskObjectives
    /\ "level" \in DOMAIN store.scalars

\* C15: the write of a setObjective request that carries only a count leaves
\* the objective's complete and timestamp fields as they were, and the write
\* of one that carries only a state leaves its count as it was.
C15_ObjectiveFieldMerge ==
  [][\A r \in Req :
       (req[r].kind = "objective" /\ ~req[r].wrote /\ req'[r].wrote)
       => LET o == req[r].items[1].id
              state == req[r].items[1].status
              count == req[r].items[1].count
              old == store.taskObjectives
              new == store'.taskObjectives
          IN /\ (state = None /\ count.type = "number")
                  => /\ Field(new, o, "complete") = Field(old, o, "complete")
                     /\ Field(new, o, "timestamp") = Field(old, o, "timestamp")
                     /\ Field(new, o, "count") = <<count.val>>
             /\ (state # None /\ count.type = "undefined")
                  => Field(new, o, "count") = Field(old, o, "count")]_vars

\* A count-only request has been written on an objective that is stored
\* completed with its timestamp.
C15_Witness ==
  \E r \in Req :
    /\ req[r].kind = "objective" /\ req[r].wrote
    /\ req[r].items[1].status = None
    /\ req[r].items[1].count = [type |-> "number", val |-> 0]
    /\ Field(store.taskObjectives, req[r].items[1].id, "complete") = <<TRUE>>
    /\ Field(store.taskObjectives, req[r].items[1].id, "timestamp") # <<>>
    /\ Field(store.taskObjectives, req[r].items[1].id, "count") = <<0>>
\* The complete and failed values of every stored task, and whether it has a
\* timestamp.
StatusFields(map) ==
  [t \in Tasks |->
     [complete |-> Field(map, t, "complete"), failed |-> Field(map, t, "failed"),
      stamped |-> "timestamp" \in DOMAIN Entry(map, t)]]

\* A batch applied for the second time whose write is committed.
AppliedTwice(rec) == rec.kind = "tasks" /\ rec.again /\ rec.wrote

\* C16 (as stated): once a valid setTasksState batch has been applied a
\* second time, the taskCompletions of the progress record are what the
\* first application left.
C16_TwiceSameRecord ==
  \A r \in Req :
    AppliedTwice(req[r]) /\ Settled(r) => store.taskCompletions = req[r].once

\* C16 (amended): once a valid setTasksState batch has been applied a second
\* time, every task has the complete and failed values and the presence of a
\* timestamp that the first application left, and every completed or failed
\* task of the batch carries the timestamp of the second application.
C16_TwiceSameStatus ==
  \A r \in Req :
    AppliedTwice(req[r]) =>
      /\ StatusFields(store.taskCompletions) = StatusFields(req[r].once)
      /\ \A i \in DOMAIN req[r].items :
           StoredAs(store.taskCompletions, req[r].items[i].id, req[r].items[i].status,
                    req[r].updateTime)

\* A batch that completes t1 and fails t2 was applied at time 1 and again at
\* time 2, and the second request has ended.
C16_Witness ==
  \E r \in Req :
    /\ AppliedTwice(req[r]) /\ Settled(r)
    /\ req[r].items = <<[id |-> "t1", status |-> "completed"],
                        [id |-> "t2", status |-> "failed"]>>
    /\ req[r].updateTime = 2
    /\ StoredAs(req[r].once, "t1", "completed", 1)
    /\ StoredAs(store.taskCompletions, "t1", "completed", 2)
\* C17: a step of a setTasksState request that changes the complete, failed
\* or timestamp field of any stored task is the request's one store write,
\* and it leaves every item of the batch stored with its status and the one
\* timestamp of the request: no state has only part of the batch applied.
C17_BatchCommitsInOneWrite ==
  [][\A r \in Req :
       (req[r].kind = "tasks" /\
        PrimaryFields(store'.taskCompletions) # PrimaryFields(store.taskCompletions)) =>
         /\ ~req[r].wrote /\ req'[r].wrote
         /\ \A i \in DOMAIN req[r].items :
              StoredAs(store'.taskCompletions, req[r].items[i].id, req[r].items[i].status,
                       req[r].updateTime)]_vars

\* A batch of two items has just been written: t1 completed and t2 failed,
\* both stamped with the time of the request, while its dependency updates
\* have not run.
C17_Witness ==
  \E r \in Req :
    /\ req[r].kind = "tasks" /\ req[r].wrote /\ req[r].pc = "props"
    /\ req[r].prop = <<"load", "load">>
    /\ req[r].updateTime = 2
    /\ StoredAs(store.taskCompletions, "t1", "completed", 2)
    /\ StoredAs(store.taskCompletions, "t2", "failed", 2)
\* The setTaskState requests whose primary write on task id is committed.
WritersOf(id) ==
  {r \in Racers : req[r].kind = "task" /\ req[r].wrote /\ req[r].items[1].id = id}

\* C18: whenever setTaskState requests of the same actor on the same task
\* have committed their primary writes, in whatever order, the stored
\* complete, failed and timestamp of the task are exactly what one of these
\* requests writes on its own: (false,false,absent), (true,false,t) or
\* (true,true,t) with t the time of that request.
C18_RaceKeepsOneTriple ==
  \A id \in Tasks :
    WritersOf(id) # {} =>
      \E r \in WritersOf(id) :
        StoredAs(store.taskCompletions, id, req[r].items[1].status, req[r].updateTime)

\* The requests overlap: the one completing t1 was built at time 1, the one
\* resetting it at time 2 wrote first, and the older request wrote last.
C18_Witness ==
  /\ WritersOf("t1") = Racers
  /\ req["r1"].items[1].status = "completed" /\ req["r1"].updateTime = 1
  /\ req["r2"].items[1].status = "uncompleted" /\ req["r2"].updateTime = 2
  /\ committed["t1"] = "completed"
  /\ StoredAs(store.taskCompletions, "t1", "completed", 1)
\* getTeamProgress has answered 200.
TeamAnswered(v) == v.kind = "team" /\ v.pc = "done" /\ v.status = 200

\* The ids of the team document that the system document of ownerId names.
Teammates(ownerId) ==
  IF db.team[ownerId] = TeamId /\ db.teamDoc.exists
    THEN Range(db.teamDoc.members) \ {ownerId} ELSE {}

\* C19: in a 200 response of getTeamProgress(A), every teammate B that A has
\* marked hidden is listed in hiddenTeammates and, when B has a progress
\* record, B's progress is still in data[]; a requester with an empty hidden
\* set gets an empty hiddenTeammates, whoever has hidden the requester.
C19_HiddenTeammateStillReturned ==
  TeamAnswered(view) =>
    /\ \A B \in Teammates(view.owner) \cap db.teamHide[view.owner] :
         /\ B \in Range(view.hiddenTeammates)
         /\ B \in db.progress => FormatProgress(B) \in Range(view.data)
    /\ db.teamHide[view.owner] = {} => view.hiddenTeammates = <<>>

\* a hides b and b hides nobody: getTeamProgress(a) returned b's progress
\* and listed b as hidden, and then getTeamProgress(b) returned a's progress
\* and listed nobody.
C19_Witness ==
  /\ db.teamHide["a"] = {"b"} /\ db.teamHide["b"] = {}
  /\ view.last.owner = "a" /\ view.last.status = 200
  /\ view.last.hiddenTeammates = <<"b">>
  /\ FormatProgress("b") \in Range(view.last.data)
  /\ TeamAnswered(view) /\ view.owner = "b"
  /\ view.hiddenTeammates = <<>>
  /\ FormatProgress("a") \in Range(view.data)

\* C20: in a 200 response of getTeamProgress the requester is not listed in
\* hiddenTeammates, whatever the requester's hidden set marks; every listed
\* id is a resolved member other than the requester; and the requester's
\* progress record, when there is one, is in data[].
C20_RequesterNeverHidden ==
  TeamAnswered(view) =>
    /\ view.owner \notin Range(view.hiddenTeammates)
    /\ Range(view.hiddenTeammates) \subseteq Teammates(view.owner)
    /\ view.owner \in db.progress => FormatProgress(view.owner) \in Range(view.data)

\* a's hidden set marks a itself and teammate b: the response lists only b
\* and has a's progress.
C20_Witness ==
  /\ TeamAnswered(view) /\ view.owner = "a"
  /\ db.teamHide["a"] = {"a", "b"}
  /\ view.hiddenTeammates = <<"b">>
  /\ FormatProgress("a") \in Range(view.data)
\* The resolved member ids of a request of ownerId, from the documents.
ResolvedMembers(ownerId) == Teammates(ownerId) \cup {ownerId}

\* The position of id in seq (0 when it is not there).
IndexOf(seq, id) ==
  IF id \in Range(seq) THEN CHOOSE i \in DOMAIN seq : seq[i] = id ELSE 0

NoRepeats(seq) == \A i, j \in DOMAIN seq : seq[i] = seq[j] => i = j

\* C21: a request of getTeamProgress whose loads all resolve with the
\* catalogs present is answered 200 whichever members lack a progress
\* record, and data[] of a 200 response holds the progress of exactly the
\* resolved members that have a record, in the order of the member list.
C21_MissingMemberOmitted ==
  /\ view.pc = "progress" => ENABLED ProgressLoaded
  /\ TeamAnswered(view) =>
       /\ Range(view.data) =
            {FormatProgress(u) : u \in ResolvedMembers(view.owner) \cap db.progress}
       /\ \A i, j \in DOMAIN view.data :
            i < j => IndexOf(view.memberIds, view.data[i].userId) <
                     IndexOf(view.memberIds, view.data[j].userId)

\* The team lists b and then a; b has no progress record and a has one:
\* getTeamProgress(a) answered 200 with a's progress alone.
C21_Witness ==
  /\ TeamAnswered(view) /\ view.owner = "a"
  /\ view.memberIds = <<"b", "a">>
  /\ db.progress = {"a"}
  /\ view.data = <<FormatProgress("a")>>

\* C22: the member list that getTeamProgress aggregates has every id of the
\* team's members and the requester exactly once, so data[] of a 200
\* response has no actor twice; without a team, or with a team whose
\* document is missing, the list is the requester alone.
C22_MembersDeduplicated ==
  view.kind = "team" /\ view.pc \in {"progress", "done"} /\ view.status \in {0, 200} =>
    /\ NoRepeats(view.memberIds)
    /\ Range(view.memberIds) = ResolvedMembers(view.owner)
    /\ NoRepeats(view.data)
    /\ (db.team[view.owner] = None \/ ~db.teamDoc.exists) =>
         view.memberIds = <<view.owner>>

\* The team document lists the requester a and b; both have progress
\* records and each is once in data[].
C22_Witness ==
  /\ TeamAnswered(view) /\ view.owner = "a"
  /\ db.teamDoc.members = <<"a", "b">>
  /\ view.data = <<FormatProgress("a"), FormatProgress("b")>>
\* C25: in setTaskState and setTasksState no dependency update calls
\* updateTaskState after the catalog load returned null.
C25_NoPropagationWithoutCatalog ==
  \A r \in Req : \A i \in DOMAIN req[r].prop :
    req[r].kind \in {"task", "tasks"} => req[r].prop[i] # "runNull"
\* C23: a getProgress request that is answered after all its loads resolved
\* with the catalogs present, for an actor without a progress record, is
\* answered NotFound and carries no progress view.
C23_AbsentRecordNotFound ==
  (/\ view.kind = "player" /\ view.pc = "done" /\ view.authorized
   /\ view.owner \notin db.progress
   /\ view.error \notin {"CatalogUnavailable", "Failed"}) =>
    view.status = 404 /\ view.data = <<>>

\* C24: once a catalog load of getProgress or getTeamProgress has returned
\* null, in whatever order the concurrent loads settle, the request goes no
\* further than the null test: nothing is formatted or returned as data and
\* the answer is 500, the catalog-unavailable error unless a read rejected
\* before the test.
C24_NullCatalogFailsRequest ==
  CatalogMissing(view.loads) =>
    /\ view.pc \in {"meta", "done"}
    /\ view.data = <<>>
    /\ view.pc = "done" =>
         view.status = 500 /\ view.error \in {"CatalogUnavailable", "Failed"}

\* getTeamProgress of an actor that has a progress record: every load
\* resolved, the task catalog with null, and the answer is the
\* catalog-unavailable 500.
C24_Witness ==
  /\ view.kind = "team" /\ view.pc = "done" /\ view.authorized
  /\ view.owner \in db.progress
  /\ AllLoaded(view.loads)
  /\ view.loads["task"] = "null" /\ view.loads["hideout"] = "data"
  /\ view.status = 500 /\ view.error = "CatalogUnavailable"
\* C26: a request of any of the six endpoints whose token has no owner or
\* lacks the permission of the endpoint is answered 401 at once: it starts
\* no read, issues no write and creates no dependency update, and the step
\* that answers it changes neither the progress document nor the team
\* documents.
C26_UnauthorizedDoesNothing ==
  [][/\ \A r \in Req :
          (req[r].pc = "idle" /\ req'[r].pc # "idle" /\ ~req'[r].authorized) =>
            /\ req'[r].pc = "done" /\ req'[r].status = 401
            /\ ~req'[r].wrote /\ req'[r].updateData = EmptyMap /\ req'[r].prop = <<>>
            /\ store' = store /\ db' = db
     /\ (view.pc = "idle" /\ view'.pc # "idle" /\ ~view'.authorized) =>
            /\ view'.pc = "done" /\ view'.status = 401
            /\ view'.loads = EmptyMap /\ view'.data = <<>> /\ view'.memberIds = <<>>
            /\ store' = store /\ db' = db]_vars

\* A setTasksState request without the WP permission and a getTeamProgress
\* request without the TP permission have both been answered 401, with the
\* progress document as it was.
C26_Witness ==
  /\ \E r \in Req :
       /\ req[r].kind = "tasks" /\ ~req[r].authorized /\ req[r].status = 401
       /\ req[r].items = <<[id |-> "t1", status |-> "completed"]>>
  /\ view.kind = "team" /\ ~view.authorized /\ view.status = 401
  /\ db = OneTeam
  /\ store = SomeDocument
\* ---- properties of the hideout graph ---------------------------------------
\* The ids of all levels of a station list.
LevelIdsOf(stations) ==
  {AllLevels(stations)[i].level.id : i \in DOMAIN AllLevels(stations)}

\* The requirement relation of a catalog: y is required by x when x declares
\* a requirement whose station is the station of y and whose level number
\* is the declared number of y.
Requires(stations) ==
  LET levels == AllLevels(stations)
  IN {<<levels[j].level.id, levels[i].level.id>> : <<i, j>> \in
        {p \in (DOMAIN levels) \X (DOMAIN levels) :
           \E rq \in levels[p[1]].level.stationLevelRequirements :
             /\ rq.station = levels[p[2]].stationId
             /\ rq.level = levels[p[2]].level.level}}

\* Requirements that name a station but match no level of the catalog.
Unresolved(stations) ==
  LET levels == AllLevels(stations)
  IN {<<levels[i].level.id, rq>> : <<i, rq>> \in
        {p \in (DOMAIN levels) \X RequirementInputs :
           /\ p[2] \in levels[p[1]].level.stationLevelRequirements
           /\ p[2].station # None
           /\ ~\E j \in DOMAIN levels :
                 /\ p[2].station = levels[j].stationId
                 /\ p[2].level = levels[j].level.level}}

RECURSIVE TransitiveClosure(_)
TransitiveClosure(R) ==
  LET R2 == R \cup {<<a[1], b[2]>> : <<a, b>> \in {p \in R \X R : p[1][2] = p[2][1]}}
  IN IF R2 = R THEN R ELSE TransitiveClosure(R2)

HasCycle(R) == \E e \in TransitiveClosure(R) : e[1] = e[2]

\* C27: the graph built from a catalog has every level of every station as
\* a node and has exactly the edges required-level -> dependent-level of the
\* requirements that resolve by station and declared level number; a
\* requirement that does not resolve adds nothing and takes nothing away.
C27_GraphFollowsRequirements ==
  /\ hideout.hideoutGraph.nodes = LevelIdsOf(hideout.hideoutStations)
  /\ hideout.hideoutGraph.edges = Requires(hideout.hideoutStations)

\* Station S1 lists level number 2 before level number 1; s2a requires S1
\* level 1, which is s1b by number, and s2b has a requirement that resolves
\* to nothing next to one that resolves.
C27_Witness ==
  /\ hideout.hideoutStations # <<>>
  /\ hideout.hideoutStations[1].levels[1].level = 2
  /\ <<"s1b", "s2a">> \in hideout.hideoutGraph.edges
  /\ <<"s1a", "s2a">> \notin hideout.hideoutGraph.edges
  /\ \E u \in Unresolved(hideout.hideoutStations) : u[1] = "s2b"
  /\ <<"s2a", "s2b">> \in hideout.hideoutGraph.edges
  /\ "s2b" \in hideout.hideoutGraph.nodes

\* C28: when the requirement relation of the catalog has no cycle, no node
\* of the built graph reaches itself along one or more edges.
C28_AcyclicCatalogGivesDag ==
  ~HasCycle(Requires(hideout.hideoutStations)) => ~HasCycle(hideout.hideoutGraph.edges)

\* A catalog without a requirement cycle whose level numbers do not follow
\* the array positions: s1a (level number 2) is required by s2a and by s2b,
\* and s2a is required by s2b.
C28_Witness ==
  /\ hideout.hideoutStations # <<>>
  /\ hideout.hideoutStations[1].levels[1].level = 2
  /\ ~HasCycle(Requires(hideout.hideoutStations))
  /\ hideout.hideoutGraph.edges =
       {<<"s1a", "s2b">>, <<"s2a", "s2b">>, <<"s1a", "s2a">>}
\* The nodes from which id is reached along one or more edges.
AncestorsOf(graph, id) == {e[1] : e \in {x \in TransitiveClosure(graph.edges) : x[2] = id}}

RECURSIVE SumOfTimes(_)
SumOfTimes(ids) ==
  IF ids = {} THEN 0
  ELSE LET x == CHOOSE y \in ids : TRUE
       IN ConstructionTime[x] + SumOfTimes(ids \ {x})

\* The sum of constructionTime over the module and its transitive
\* ancestors, each once; 0 for an id that is no module.
ExpectedTotal(id) ==
  IF id \in LevelIdsOf(hideout.hideoutStations)
    THEN SumOfTimes({id} \cup AncestorsOf(hideout.hideoutGraph, id))
    ELSE 0

DerivedFrom(refs, result) ==
  LET stations == IF result.hasStations THEN result.hideoutStations ELSE <<>>
      levels == AllLevels(stations)
  IN /\ refs.hideoutStations = stations
     /\ [i \in DOMAIN refs.hideoutModules |-> refs.hideoutModules[i].id] =
          [i \in DOMAIN levels |-> levels[i].level.id]
     /\ refs.hideoutGraph.nodes = LevelIdsOf(stations)
     /\ refs.hideoutGraph.edges = Requires(stations)
     /\ {<<n.hideoutModule, n.id>> : n \in Range(refs.neededItemHideoutModules)} =
          {<<levels[i].level.id, rq.id>> : <<i, rq>> \in
             {p \in (DOMAIN levels) \X
                     (UNION {Range(ItemRequirements[l]) : l \in LevelIds}) :
                p[2] \in Range(levels[p[1]].level.itemRequirements) /\ p[2].item # None}}

\* C30: once the watch has run on the latest catalog result, stations,
\* modules, graph and needed items are all what that result gives (all
\* empty for a result without stations); and in every state the four are
\* what one and the same station list gives.
C30_RefsFromOneResult ==
  /\ ~hideout.dirty => DerivedFrom(hideout, queryResult)
  /\ DerivedFrom(hideout, [hasStations |-> TRUE,
                           hideoutStations |-> hideout.hideoutStations])

\* After a catalog of four levels, the result with the single station S2 has
\* replaced all four refs.
C30_Witness ==
  /\ ~hideout.dirty
  /\ queryResult.hasStations /\ Len(queryResult.hideoutStations) = 1
  /\ Len(hideout.hideoutModules) = 1 /\ hideout.hideoutModules[1].id = "s2a"
  /\ hideout.hideoutGraph = [nodes |-> {"s2a"}, edges |-> {}]
  /\ hideout.neededItemHideoutModules = <<>>

\* ---- properties of the tarkov store --------------------------------------------
\* The last call was migrateDataIfNeeded().
MigrateCalled == tarkov.last.op = "migrate"

IsLegacy(record) ==
  /\ ~Has(record, "currentGameMode")
  /\ ~Has(record, "pvp")
  /\ ~Has(record, "pve")

\* C32: after migrateDataIfNeeded has migrated a legacy flat record, every
\* legacy field of the record is in the pvp progress with the same value,
\* the pve progress is the default progress, and currentGameMode is 'pvp'.
C32_MigrationLossless ==
  (MigrateCalled /\ tarkov.last.patched /\ IsLegacy(tarkov.last.before)) =>
    /\ Has(tarkov.state, "pvp")
    /\ \A k \in ProgressFields :
         Has(tarkov.last.before, k) =>
           Has(tarkov.state.pvp, k) /\ tarkov.state.pvp[k] = tarkov.last.before[k]
    /\ Has(tarkov.state, "pve")
    /\ tarkov.state.pve = DefaultProgress
    /\ tarkov.state.currentGameMode = "pvp"

\* The record {level: 10, taskCompletions: {t1: {complete: true}}} has been
\* migrated.
C32_Witness ==
  /\ MigrateCalled
  /\ tarkov.last.patched
  /\ tarkov.last.before = [level |-> 10, taskCompletions |-> Done]
  /\ tarkov.state.pvp.taskCompletions["t1"].complete

\* The detection as the specification words it: the level, the display name
\* or the faction at the top level without its equivalent in the pvp
\* progress.
LegacyScalars == {"level", "displayName", "pmcFaction"}

DetectedBySpec(record) ==
  \/ ~Has(record, "currentGameMode")
  \/ ~Has(record, "pvp")
  \/ ~Has(record, "pve")
  \/ \E k \in LegacyScalars :
       Has(record, k) /\ ~(Has(record, "pvp") /\ Has(record.pvp, k))

\* C33 as stated: the migration runs whenever the selector or a mode object
\* is missing or any of level, displayName, pmcFaction is present at the top
\* level without its mode-scoped equivalent.
C33_DetectsEveryLegacyScalar ==
  MigrateCalled => (DetectedBySpec(tarkov.last.before) => tarkov.last.patched)

\* C33: the migration runs exactly when the selector is missing, a mode
\* object is missing, or the legacy level is present without pvp.level; a
\* top-level displayName or pmcFaction alone does not make it run.
C33_DetectsLegacyLevel ==
  MigrateCalled =>
    (tarkov.last.patched <=>
       \/ ~Has(tarkov.last.before, "currentGameMode")
       \/ ~Has(tarkov.last.before, "pvp")
       \/ ~Has(tarkov.last.before, "pve")
       \/ (Has(tarkov.last.before, "level") /\ ~Has(tarkov.last.before.pvp, "level")))

\* A record in the new shape with a legacy level and no pvp.level has been
\* migrated.
C33_Witness ==
  /\ MigrateCalled
  /\ tarkov.last.patched
  /\ ~tarkov.last.again
  /\ Has(tarkov.last.before, "currentGameMode")
  /\ Has(tarkov.last.before, "pvp")
  /\ Has(tarkov.last.before, "pve")
  /\ tarkov.state.pvp.level = tarkov.last.before.level

\* ---- properties of the watch of fireuser.loggedIn ------------------------------
\* No job of the watcher is queued and no invocation of its callback is
\* running.
WatcherQuiet == ~watcher.scheduled /\ watcher.pc = "idle" /\ ~watcher.running

\* C34: once every invocation of the watcher has finished (each with a
\* store instance), the store is bound exactly when the user is logged in.
C34_BindingFollowsLogin ==
  (WatcherQuiet /\ ~watcher.noStore) => (watcher.bound = fireuser.loggedIn)

\* ---- properties of the privacy consent -----------------------------------------
\* C35: whenever consentStatus is not 'accepted', the last signal sent to
\* Firebase analytics and the last consent signal sent to Clarity is not
\* an enable.
C35_EnabledOnlyWhileAccepted ==
  consent.consentStatus # "accepted" =>
    consent.analytics # "enable" /\ consent.clarity # "enable"

\* C36: a page holds at most one Clarity script; a step inserts it only when
\* it is accept(), or initializeConsent() reading a stored 'accepted', and
\* leaves consentStatus 'accepted'; reject(), resetConsent() and
\* openPreferences() insert nothing.
C36_ClarityInjectedOnceOnConsent ==
  [][/\ consent'.injected <= 1
     /\ consent'.injected > consent.injected =>
          /\ consent'.consentStatus = "accepted"
          /\ \/ consent'.last.op = "accepted"
             \/ consent'.last.op = "initialize" /\ consent.stored = "accepted"
     /\ consent'.last.op \in {"rejected", "resetConsent", "openPreferences"} =>
          consent'.injected = consent.injected]_vars

\* The script was inserted on accept() and a later reject() left it at one.
C36_Witness ==
  /\ consent.injected = 1
  /\ consent.last.op = "rejected"
  /\ consent.clarity = "disable"

\* C37: initializeConsent() that runs with working storage restores the
\* choice that accept() or reject() last stored, with the banner hidden;
\* after a resetConsent() that cleared the storage, and for any stored value
\* other than 'accepted' and 'rejected', it gives 'unknown' with the banner
\* visible.
C37_ChoiceSurvivesSession ==
  (consent.last.op = "initialize" /\ consent.last.works) =>
    /\ consent.choice \in ConsentChoices =>
         consent.consentStatus = consent.choice /\ ~consent.bannerVisible
    /\ consent.choice = "unknown" =>
         consent.consentStatus = "unknown" /\ consent.bannerVisible
    /\ consent.stored \in ConsentChoices =>
         consent.consentStatus = consent.stored /\ ~consent.bannerVisible
    /\ consent.stored \notin ConsentChoices =>
         consent.consentStatus = "unknown" /\ consent.bannerVisible

\* A new page has restored 'rejected' as its first operation.
C37_Witness ==
  /\ consent.last = [op |-> "initialize", works |-> TRUE, first |-> TRUE]
  /\ consent.choice = "rejected"
  /\ consent.consentStatus = "rejected"
  /\ ~consent.bannerVisible
  /\ consent.analytics = "disable"

\* ---- properties of resetCurrentGameModeData -----------------------------------
\* C38: when resetCurrentGameModeData has completed its write, the progress
\* of the mode it reset is the default progress in the store and in the
\* document.
C38_ResetsModeToDefault ==
  tarkov.last.op = "resetDone" =>
    /\ tarkov.state[tarkov.reset.mode] = DefaultProgress
    /\ tarkov.remote.data[tarkov.reset.mode] = DefaultProgress

\* ---- properties of the responses ------------------------------------------------
ResponseCodes == {200, 400, 401, 500}

\* The steps that the write handler in slot r is waiting for.
WriteContinues(r) ==
  \/ PrimaryWriteOk(r) \/ PrimaryWriteFails(r)
  \/ SetLevelOk(r) \/ SetLevelFails(r)
  \/ \E i \in DOMAIN req[r].prop, res \in {"data", "null", "throw"} :
       CatalogLoaded(r, i, res)
  \/ \E i \in DOMAIN req[r].prop : TaskStateUpdated(r, i) \/ TaskStateFails(r, i)
  \/ SendSuccess(r)

\* The steps that the read handler is waiting for.
ReadContinues ==
  \/ \E n \in DOMAIN view.loads, res \in {"data", "null"} : LoadSettles(n, res)
  \/ PlayerProgressLoaded \/ PlayerProgressFails
  \/ MetaLoaded \/ TeamLoaded \/ ProgressLoaded \/ TeamProgressFails

\* A handler has sent its response exactly when it has returned, and then
\* with one of the four codes; a handler that has not returned waits for a
\* call that can complete.
AnsweredWhenDone ==
  /\ \A r \in Req :
       /\ (req[r].pc = "done") <=> (req[r].status # 0)
       /\ req[r].status # 0 => req[r].status \in ResponseCodes
       /\ req[r].pc \notin {"idle", "done"} => ENABLED WriteContinues(r)
  /\ (view.pc = "done") <=> (view.status # 0)
  /\ view.status # 0 => view.status \in ResponseCodes
  /\ view.pc \notin {"idle", "done"} => ENABLED ReadContinues

\* C39: every invocation of the six progress handlers sends one response
\* and no second one: a handler that has returned has answered with 200,
\* 400, 401 or 500, a handler that has not returned waits for a store or
\* catalog call, and a response once sent is never followed by another.
C39_ExactlyOneResponse ==
  /\ []AnsweredWhenDone
  /\ [][/\ \A r \in Req : req[r].status # 0 => req'[r].status = req[r].status
        /\ view.status # 0 => view'.status = view.status]_vars

\* A batch whose store write failed has been answered 500 and a progress
\* read has been answered 200.
C39_Witness ==
  /\ req["r1"].kind = "tasks" /\ req["r1"].status = 500
  /\ view.kind = "player" /\ view.status = 200
====
